---- MODULE Spec2Model ----
(***************************************************************************)
(* A model of go-cmdline: the template compiler (newArgSpec), the registry *)
(* (RegisterCommand, RegisterGlobalOption, checkForDuplicateNames) and the *)
(* dispatch engine (Process, argSpec.Parse).                               *)
(*                                                                         *)
(* Go strings are modelled as sequences of one-character strings, so that  *)
(* splitting, prefix tests and the template grammar are computed and not   *)
(* assumed.  Positions inside the compiler are Go's 0-based byte offsets.  *)
(***************************************************************************)
EXTENDS Integers, Sequences, FiniteSets, TLC

\* ------------------------------------------------------------------ bounds
\* how many registration calls a behaviour makes
MaxRegs == 3

\* ------------------------------------------------------------------ strings
Letters ==
    {"a","b","c","d","e","f","g","h","i","j","k","l","m",
     "n","o","p","q","r","s","t","u","v","w","x","y","z",
     "A","B","C","D","E","F","G","H","I","J","K","L","M",
     "N","O","P","Q","R","S","T","U","V","W","X","Y","Z"}

Digits == {"0","1","2","3","4","5","6","7","8","9"}

\* s[i] with Go's 0-based index
At(s, i) == s[i + 1]

\* s[from:to] with Go's 0-based half-open bounds
Slice(s, from, to) == SubSeq(s, from + 1, to)

\* s[from:]
From(s, from) == SubSeq(s, from + 1, Len(s))

HasPrefix(s, p) == Len(s) >= Len(p) /\ SubSeq(s, 1, Len(p)) = p

HasSuffix(s, p) == Len(s) >= Len(p) /\ SubSeq(s, Len(s) - Len(p) + 1, Len(s)) = p

TrimPrefix(s, p) == IF HasPrefix(s, p) THEN From(s, Len(p)) ELSE s

\* strings.IndexAny(s, chars): the first position holding one of chars, or -1
IndexAny(s, chars) ==
    LET hits == {i \in 0..(Len(s) - 1) : At(s, i) \in chars}
    IN  IF hits = {} THEN -1 ELSE CHOOSE i \in hits : \A j \in hits : i <= j

\* strings.LastIndex(s, ch) for a one-character needle
LastIndex(s, ch) ==
    LET hits == {i \in 0..(Len(s) - 1) : At(s, i) = ch}
    IN  IF hits = {} THEN -1 ELSE CHOOSE i \in hits : \A j \in hits : i >= j

\* indexOf(str, substr, pos) for a one-character needle
indexOf(str, ch, pos) ==
    LET hits == {i \in pos..(Len(str) - 1) : At(str, i) = ch}
    IN  IF hits = {} THEN -1 ELSE CHOOSE i \in hits : \A j \in hits : i <= j

RECURSIVE Split(_, _)
\* strings.Split(s, sep) for a one-character separator: always at least one part
Split(s, sep) ==
    LET i == indexOf(s, sep, 0)
    IN  IF i < 0 THEN <<s>> ELSE <<Slice(s, 0, i)>> \o Split(From(s, i + 1), sep)

isTokenCharFirst(ch) == ch \in Letters \cup {"_"}

isTokenCharNext(ch) == ch \in Letters \cup Digits \cup {"_"}

isTokenName(s) ==
    /\ Len(s) > 0
    /\ isTokenCharFirst(s[1])
    /\ \A i \in 2..Len(s) : isTokenCharNext(s[i])

\* simpleutils.IsTokenNameWithMiddleChars: a token name in which the characters
\* strictly between the first and the last may also come from middle
IsTokenNameWithMiddleChars(s, middle) ==
    /\ Len(s) > 0
    /\ isTokenCharFirst(s[1])
    /\ \A i \in 2..Len(s) :
          \/ isTokenCharNext(s[i])
          \/ (i < Len(s) /\ s[i] \in middle)

\* whichSuffix(s, suffixes...): the first listed suffix that s ends with, or <<>>
\* for nil (no listed suffix is empty)
whichSuffix(s, suffixes) ==
    LET hits == {i \in 1..Len(suffixes) : HasSuffix(s, suffixes[i])}
    IN  IF hits = {} THEN <<>>
        ELSE suffixes[CHOOSE i \in hits : \A j \in hits : i <= j]

\* splitColon(arg): the text before the first colon, and the text after it
\* (hasValue is FALSE for Go's nil *string)
splitColon(arg) ==
    LET delimiter == IndexAny(arg, {":"})
    IN  IF delimiter >= 0
        THEN [switch |-> Slice(arg, 0, delimiter), hasValue |-> TRUE,
              value |-> From(arg, delimiter + 1)]
        ELSE [switch |-> arg, hasValue |-> FALSE, value |-> <<>>]

\* strings.Contains(s, sub)
Contains(s, sub) ==
    \E i \in 0..(Len(s) - Len(sub)) : SubSeq(s, i + 1, i + Len(sub)) = sub

RECURSIVE TrimSpace(_)
\* strings.TrimSpace(s)
TrimSpace(s) ==
    IF Len(s) > 0 /\ s[1] = " " THEN TrimSpace(Tail(s))
    ELSE IF Len(s) > 0 /\ s[Len(s)] = " " THEN TrimSpace(SubSeq(s, 1, Len(s) - 1))
    ELSE s

UpperCase ==
    <<"A","B","C","D","E","F","G","H","I","J","K","L","M",
      "N","O","P","Q","R","S","T","U","V","W","X","Y","Z">>

LowerCase ==
    <<"a","b","c","d","e","f","g","h","i","j","k","l","m",
      "n","o","p","q","r","s","t","u","v","w","x","y","z">>

\* strings.ToLower(s)
ToLower(s) ==
    [i \in 1..Len(s) |->
        IF \E j \in 1..26 : UpperCase[j] = s[i]
        THEN LowerCase[CHOOSE j \in 1..26 : UpperCase[j] = s[i]]
        ELSE s[i]]

\* ------------------------------------------------------------------ values
\* A typed value handed to a handler.  Every value has the same shape, the
\* field that carries it being named by t: "bool" (b), "int" (n), "string"
\* (s), "list" (l, a sequence of values of type et) and "nil".
Val(t, b, n, s, et, l) == [t |-> t, b |-> b, n |-> n, s |-> s, et |-> et, l |-> l]

NilVal == Val("nil", FALSE, 0, <<>>, "", <<>>)

BoolVal(b) == Val("bool", b, 0, <<>>, "", <<>>)

IntVal(n) == Val("int", FALSE, n, <<>>, "", <<>>)

StrVal(s) == Val("string", FALSE, 0, s, "", <<>>)

ListVal(et, l) == Val("list", FALSE, 0, <<>>, et, l)

\* ------------------------------------------------------------------ option types
argTypeBool == 0

argTypeInt == 1

argTypeFloat64 == 2

argTypeString == 3

argTypePath == 4

\* the panic of StringToAttributes on an unknown type name
NoType == [Index |-> -1, DefaultValue |-> NilVal]

\* DefaultOptionTypes.StringToAttributes (float64 values are modelled as the
\* integers among them)
StringToAttributes(typeName) ==
    CASE typeName = <<"b","o","o","l">> ->
            [Index |-> argTypeBool, DefaultValue |-> BoolVal(FALSE)]
      [] typeName = <<"i","n","t">> ->
            [Index |-> argTypeInt, DefaultValue |-> IntVal(0)]
      [] typeName = <<"f","l","o","a","t","6","4">> ->
            [Index |-> argTypeFloat64, DefaultValue |-> IntVal(0)]
      [] typeName = <<"s","t","r","i","n","g">> ->
            [Index |-> argTypeString, DefaultValue |-> StrVal(<<>>)]
      [] typeName = <<"p","a","t","h">> ->
            [Index |-> argTypePath, DefaultValue |-> StrVal(<<>>)]
      [] OTHER -> NoType

\* ------------------------------------------------------------------ template compiler
\* the result of a compilation that panicked
PanicSpec(msg) ==
    [panic |-> msg, Key |-> <<>>, Unnamed |-> FALSE, Optional |-> FALSE,
     ValuesDelim |-> "", ValueDelim |-> "", ValueSpecs |-> <<>>,
     MultiValue |-> FALSE, HelpText |-> <<>>]

\* One pass of newArgSpec's loop over the value specs: st is the loop state
\* [panic, parsePos, ValueDelim, ValueSpecs]; a rune that is still 0 is "".
valueSpecPass(spec, ValuesDelim, st) ==
    LET n == Len(spec)
        p0 == st.parsePos
        c0 == At(spec, p0)
        bracket == c0 = "["
        spaceBracket ==
            ~bracket /\ p0 + 1 < n /\ c0 = " " /\ At(spec, p0 + 1) = "["
        Optional == bracket \/ spaceBracket
        p1 == IF Optional THEN p0 + 1 ELSE p0
        oob1 == bracket /\ p1 >= n
        c1 == IF bracket /\ ~oob1 THEN At(spec, p1) ELSE c0
        isDelim == c1 \in {",", " "} /\ Len(st.ValueSpecs) > 0
        panicComma ==
            isDelim /\ st.ValueDelim = "" /\ c1 = " " /\ ValuesDelim = ":"
        panicUniform == isDelim /\ st.ValueDelim # "" /\ st.ValueDelim # c1
        ValueDelim == IF isDelim /\ st.ValueDelim = "" THEN c1 ELSE st.ValueDelim
        p2 == IF isDelim THEN p1 + 1 ELSE p1
        oob2 == isDelim /\ p2 >= n
        c2 == IF isDelim /\ ~oob2 THEN At(spec, p2) ELSE c1
        Multi == c2 = "*"
        p3 == IF Multi THEN p2 + 1 ELSE p2
        oob3 == Multi /\ p3 >= n
        c3 == IF Multi /\ ~oob3 THEN At(spec, p3) ELSE c2
        p4 == p3 + 1
        dashPos == indexOf(spec, "-", p4)
        optionType == Slice(spec, p4, dashPos)
        attribs == StringToAttributes(optionType)
        p5 == dashPos + 1
        closeBracket == indexOf(spec, ">", p5)
        OptionName == Slice(spec, p5, closeBracket)
        p6 == closeBracket + 1
        p7 == IF Optional THEN p6 + 1 ELSE p6
        avs == [ArgIndex |-> attribs.Index, OptionName |-> OptionName,
                Optional |-> Optional, Multi |-> Multi,
                DefaultValue |-> attribs.DefaultValue]
        fail(msg) == [st EXCEPT !.panic = msg]
    IN  IF oob1 THEN fail("index out of range")
        ELSE IF panicComma THEN fail("comma-separated value spec list")
        ELSE IF panicUniform THEN fail("uniform value delimiter")
        ELSE IF oob2 \/ oob3 THEN fail("index out of range")
        ELSE   IF c3 # "<" THEN fail("'<'")
               ELSE IF dashPos < 0 THEN fail("'-'")
               ELSE IF attribs.Index < 0 THEN fail("valid arg type")
               ELSE IF closeBracket < 0 THEN fail("'>'")
               ELSE IF ~isTokenName(OptionName) THEN fail("valid option name")
               ELSE IF Optional /\ (p6 >= n \/ At(spec, p6) # "]") THEN fail("']'")
               ELSE IF \E i \in 1..Len(st.ValueSpecs) :
                          st.ValueSpecs[i].OptionName = OptionName
                    THEN fail("duplicate value spec")
               ELSE [panic |-> "", parsePos |-> p7, ValueDelim |-> ValueDelim,
                     ValueSpecs |-> Append(st.ValueSpecs, avs)]

RECURSIVE valueSpecLoop(_, _, _)
\* for parsePos < len(spec) { ... }
valueSpecLoop(spec, ValuesDelim, st) ==
    IF st.panic # "" \/ st.parsePos >= Len(spec) THEN st
    ELSE valueSpecLoop(spec, ValuesDelim, valueSpecPass(spec, ValuesDelim, st))

\* newArgSpec, the prefix of the template: the help text is cut off, then the
\* leading "*" and the enclosing brackets; spec is what remains
specPrefix(orgSpec) ==
    LET helpCutPoint == LastIndex(orgSpec, "?")
        HelpText == IF helpCutPoint >= 0 THEN From(orgSpec, helpCutPoint + 1) ELSE <<>>
        s1 == IF helpCutPoint >= 0 THEN Slice(orgSpec, 0, helpCutPoint) ELSE orgSpec
        MultiValue == HasPrefix(s1, <<"*">>)
        s2 == IF MultiValue THEN From(s1, 1) ELSE s1
        Optional == HasPrefix(s2, <<"[">>) /\ HasSuffix(s2, <<"]">>)
    IN  [HelpText |-> HelpText, MultiValue |-> MultiValue, Optional |-> Optional,
         spec |-> IF Optional THEN Slice(s2, 1, Len(s2) - 1) ELSE s2]

\* newArgSpec, the key of the template spec cut at argDelimiter: the key, the
\* delimiter after it and the value specs that follow (rest)
specKey(spec, argDelimiter) ==
    LET hasValues == argDelimiter >= 0
        Key0 == IF hasValues THEN Slice(spec, 0, argDelimiter) ELSE spec
        suffix == whichSuffix(Key0, << <<" ", "[">>, <<"[">> >>)
        flipped == IF suffix = <<" ", "[">> THEN <<"[", " ">> ELSE suffix
    IN  [hasValues |-> hasValues,
         Key |-> IF hasValues /\ suffix # <<>> THEN Slice(Key0, 0, argDelimiter - 1)
                 ELSE Key0,
         ValuesDelim |-> IF hasValues THEN At(spec, argDelimiter) ELSE "",
         rest |-> IF hasValues THEN flipped \o From(spec, argDelimiter + 1) ELSE <<>>]

\* newArgSpec, the value specs of the template: the outcome of the loop
specValues(k) ==
    IF k.hasValues /\ Len(k.rest) > 0
    THEN valueSpecLoop(k.rest, k.ValuesDelim,
                       [panic |-> "", parsePos |-> 0, ValueDelim |-> "",
                        ValueSpecs |-> <<>>])
    ELSE [panic |-> "", parsePos |-> 0, ValueDelim |-> "", ValueSpecs |-> <<>>]

\* newArgSpec, the checks on the compiled template: pre is its prefix, k its
\* key and loop the outcome of the value spec loop
specChecks(primaryArg, pre, k, loop) ==
    LET Unnamed == k.Key = <<"~">>
        trimmedKey == TrimPrefix(TrimPrefix(k.Key, <<"-">>), <<"-">>)
    IN  IF k.hasValues /\ Len(k.rest) = 0 THEN PanicSpec("value spec")
        ELSE IF loop.panic # "" THEN PanicSpec(loop.panic)
        ELSE IF Len(k.Key) = 0 THEN PanicSpec("argument name")
        ELSE IF ~IsTokenNameWithMiddleChars(trimmedKey, {"-"}) /\ ~Unnamed
             THEN PanicSpec("a valid argument token")
        ELSE IF primaryArg /\ pre.Optional THEN PanicSpec("non-optional primary argument")
        ELSE IF primaryArg /\ pre.MultiValue
             THEN PanicSpec("single-value primary argument")
        ELSE IF primaryArg /\ Unnamed /\ k.ValuesDelim = ":"
             THEN PanicSpec("unnamed argument without a value spec")
        ELSE IF ~primaryArg /\ Unnamed THEN PanicSpec("named seconary argument")
        ELSE [panic |-> "", Key |-> k.Key, Unnamed |-> Unnamed,
              Optional |-> pre.Optional, ValuesDelim |-> k.ValuesDelim,
              ValueDelim |-> loop.ValueDelim, ValueSpecs |-> loop.ValueSpecs,
              MultiValue |-> pre.MultiValue, HelpText |-> pre.HelpText]

\* newArgSpec(spec, primaryArg): the compiled argSpec; panic is "" when the
\* template compiled and names the expected construct when it did not
newArgSpec(orgSpec, primaryArg) ==
    LET withKey(pre, k) == specChecks(primaryArg, pre, k, specValues(k))
        withPrefix(pre) == withKey(pre, specKey(pre.spec, IndexAny(pre.spec, {":", " "})))
    IN  withPrefix(specPrefix(orgSpec))

RECURSIVE valueSpecsText(_, _, _)
\* argSpec.String, the loop over the value specs from position i on: each is
\* written as its delimiter, an opening bracket when optional, and its name
\* in angle brackets
valueSpecsText(as, i, sb) ==
    IF i > Len(as.ValueSpecs) THEN sb
    ELSE LET valueSpec == as.ValueSpecs[i]
             open == IF valueSpec.Optional THEN <<"[">> ELSE <<>>
             delim == IF i = 1
                      THEN IF as.Unnamed \/ as.ValuesDelim = "" THEN <<>>
                           ELSE <<as.ValuesDelim>>
                      ELSE IF as.ValueDelim = "" THEN <<>> ELSE <<as.ValueDelim>>
             chars == open \o delim
             str == IF chars = <<"[", " ">> THEN <<" ", "[">> ELSE chars
         IN  valueSpecsText(as, i + 1, sb \o str \o <<"<">> \o valueSpec.OptionName \o <<">">>)

\* how many value specs of as are optional
optionalValues(as) == Cardinality({i \in 1..Len(as.ValueSpecs) : as.ValueSpecs[i].Optional})

\* as.String() without the brackets of an optional spec
StringWithoutBrackets(as) ==
    (IF as.MultiValue THEN <<"*">> ELSE <<>>)
    \o valueSpecsText(as, 1, IF as.Unnamed THEN <<>> ELSE as.Key)
    \o [i \in 1..optionalValues(as) |-> "]"]

\* argSpec.String(): the text of a compiled spec
String(as) ==
    (IF as.MultiValue THEN <<"*">> ELSE <<>>)
    \o (IF as.Optional THEN <<"[">> ELSE <<>>)
    \o valueSpecsText(as, 1, IF as.Unnamed THEN <<>> ELSE as.Key)
    \o [i \in 1..optionalValues(as) |-> "]"]
    \o (IF as.Optional THEN <<"]">> ELSE <<>>)

\* ------------------------------------------------------------------ errors
\* A Go error value: type "nil" (no error), "CommandLineError" (*CommandLineError)
\* or "error" (any other error type); msg is its format, arg the strings
\* formatted into it, handler the handler that made it (0: none did).
Err(type, msg, arg, handler) == [type |-> type, msg |-> msg, arg |-> arg, handler |-> handler]

NoErr == Err("nil", "", <<>>, 0)

\* NewCommandLineError making a plain error
NewPlainError(msg, arg) == Err("error", msg, arg, 0)

\* NewCommandLineError(format, arg)
NewCommandLineError(msg, arg) == Err("CommandLineError", msg, arg, 0)

\* ------------------------------------------------------------------ value conversion
TrueWords ==
    { <<"1">>, <<"t">>, <<"T">>, <<"T","R","U","E">>, <<"t","r","u","e">>,
      <<"T","r","u","e">> }

FalseWords ==
    { <<"0">>, <<"f">>, <<"F">>, <<"F","A","L","S","E">>, <<"f","a","l","s","e">>,
      <<"F","a","l","s","e">> }

DigitValue(ch) ==
    CASE ch = "0" -> 0 [] ch = "1" -> 1 [] ch = "2" -> 2 [] ch = "3" -> 3
      [] ch = "4" -> 4 [] ch = "5" -> 5 [] ch = "6" -> 6 [] ch = "7" -> 7
      [] ch = "8" -> 8 [] ch = "9" -> 9

RECURSIVE DigitsValue(_)
DigitsValue(s) ==
    IF Len(s) = 0 THEN 0
    ELSE DigitsValue(SubSeq(s, 1, Len(s) - 1)) * 10 + DigitValue(s[Len(s)])

\* strconv.Atoi on inputs short enough to fit an int
Atoi(s) ==
    LET signed == Len(s) > 0 /\ s[1] \in {"+", "-"}
        digits == IF signed THEN From(s, 1) ELSE s
    IN  IF Len(digits) = 0 \/ \E i \in 1..Len(digits) : digits[i] \notin Digits
        THEN [err |-> Err("error", "strconv.Atoi: invalid syntax", <<s>>, 0), value |-> IntVal(0)]
        ELSE [err |-> NoErr,
              value |-> IntVal(IF signed /\ s[1] = "-" THEN 0 - DigitsValue(digits)
                              ELSE DigitsValue(digits))]

\* the working directory filepath.Abs resolves against
Cwd == <<"/", "w">>

\* DefaultOptionTypes.MakeValue
MakeValue(typeIndex, inputValue) ==
    CASE typeIndex = argTypeBool ->
            IF inputValue \in TrueWords THEN [err |-> NoErr, value |-> BoolVal(TRUE)]
            ELSE IF inputValue \in FalseWords THEN [err |-> NoErr, value |-> BoolVal(FALSE)]
            ELSE [err |-> Err("error", "strconv.ParseBool: invalid syntax", <<inputValue>>, 0),
                  value |-> BoolVal(FALSE)]
      [] typeIndex \in {argTypeInt, argTypeFloat64} -> Atoi(inputValue)
      [] typeIndex = argTypeString -> [err |-> NoErr, value |-> StrVal(inputValue)]
      [] typeIndex = argTypePath ->
            [err |-> NoErr,
             value |-> StrVal(IF HasPrefix(inputValue, <<"/">>) THEN inputValue
                              ELSE IF inputValue = <<>> THEN Cwd
                              ELSE Cwd \o <<"/">> \o inputValue)]

\* the element type of the Go slice NewList makes for a type index
ListType(typeIndex) ==
    CASE typeIndex = argTypeBool -> "bool"
      [] typeIndex \in {argTypeInt, argTypeFloat64} -> "int"
      [] typeIndex \in {argTypeString, argTypePath} -> "string"

\* DefaultOptionTypes.NewList
NewList(typeIndex) == ListVal(ListType(typeIndex), <<>>)

\* AppendList putting the new value in front of the list
PrependList(typeIndex, list, inputValue) ==
    LET appended(mv) ==
            IF mv.err.type # "nil" THEN [panic |-> FALSE, err |-> mv.err, list |-> NilVal]
            ELSE IF list.t # "list" \/ list.et # ListType(typeIndex)
                 THEN [panic |-> TRUE, err |-> NoErr, list |-> NilVal]
            ELSE [panic |-> FALSE, err |-> NoErr,
                  list |-> ListVal(list.et, <<mv.value>> \o list.l)]
    IN  appended(MakeValue(typeIndex, inputValue))

\* DefaultOptionTypes.AppendList: panic is the failed type assertion
\* list.([]T) on a value that is no list of the type
AppendList(typeIndex, list, inputValue) ==
    LET appended(mv) ==
            IF mv.err.type # "nil" THEN [panic |-> FALSE, err |-> mv.err, list |-> NilVal]
            ELSE IF list.t # "list" \/ list.et # ListType(typeIndex)
                 THEN [panic |-> TRUE, err |-> NoErr, list |-> NilVal]
            ELSE [panic |-> FALSE, err |-> NoErr,
                  list |-> ListVal(list.et, Append(list.l, mv.value))]
    IN  appended(MakeValue(typeIndex, inputValue))

\* m[k] = v on a Go map
Put(m, k, v) == [x \in (DOMAIN m) \cup {k} |-> IF x = k THEN v ELSE m[x]]

\* the empty Go map
EmptyMap == [x \in {} |-> NilVal]

\* the outcome of a binding step: panic, or an error, or the map so far and
\* the number of following arguments used
Bound(panic, err, values, argsUsed) ==
    [panic |-> panic, err |-> err, values |-> values, argsUsed |-> argsUsed]

\* a binding step panicked or returned an error
Failed(r) == r.panic \/ r.err.type # "nil"

\* argSpec.storeArg
storeArg(as, effectiveArgs, spec, input) ==
    LET optVal == IF spec.OptionName \in DOMAIN effectiveArgs
                  THEN effectiveArgs[spec.OptionName] ELSE NilVal
        list == IF optVal.t = "nil" THEN NewList(spec.ArgIndex) ELSE optVal
        appended(al) ==
            IF al.panic THEN Bound(TRUE, NoErr, effectiveArgs, 0)
            ELSE IF al.err.type # "nil" THEN Bound(FALSE, al.err, effectiveArgs, 0)
            ELSE Bound(FALSE, NoErr, Put(effectiveArgs, spec.OptionName, al.list), 0)
        made(mv) ==
            IF mv.err.type # "nil" THEN Bound(FALSE, mv.err, effectiveArgs, 0)
            ELSE Bound(FALSE, NoErr, Put(effectiveArgs, spec.OptionName, mv.value), 0)
    IN  IF as.MultiValue \/ spec.Multi
        THEN appended(AppendList(spec.ArgIndex, list, input))
        ELSE made(MakeValue(spec.ArgIndex, input))

\* ------------------------------------------------------------------ binding
\* only a token that begins with two dashes counts as dash-prefixed
isDoubleDash(arg) == HasPrefix(arg, <<"-", "-">>)

\* strings.HasPrefix(arg, "-")
isDash(arg) == HasPrefix(arg, <<"-">>)

RECURSIVE absorbMulti(_, _, _, _)
\* Parse, the loop of a single multi value spec in the space form: every
\* following argument up to the next dash-prefixed one is stored
absorbMulti(as, spec, subsequentArgs, st) ==
    LET stored(r) ==
            IF Failed(r) THEN r
            ELSE absorbMulti(as, spec, subsequentArgs,
                             Bound(FALSE, NoErr, r.values, st.argsUsed + 1))
    IN  IF st.argsUsed >= Len(subsequentArgs) \/ isDash(subsequentArgs[st.argsUsed + 1])
        THEN st
        ELSE stored(storeArg(as, st.values, spec, subsequentArgs[st.argsUsed + 1]))

RECURSIVE nonDashRun(_, _)
\* how many arguments from 0-based position from on are not dash-prefixed
nonDashRun(subsequentArgs, from) ==
    IF from >= Len(subsequentArgs) \/ isDash(subsequentArgs[from + 1]) THEN 0
    ELSE 1 + nonDashRun(subsequentArgs, from + 1)

RECURSIVE collectValues(_, _, _, _, _)
\* Parse, the space form of several value specs: one argument per value spec,
\* and every further non-dash argument after a multi value spec
collectValues(as, subsequentArgs, i, values, argsUsed) ==
    IF \/ i >= Len(as.ValueSpecs)
       \/ argsUsed >= Len(subsequentArgs)
       \/ isDash(subsequentArgs[argsUsed + 1])
    THEN [values |-> values, argsUsed |-> argsUsed]
    ELSE LET more == IF as.ValueSpecs[i + 1].Multi
                     THEN nonDashRun(subsequentArgs, argsUsed + 1) ELSE 0
         IN  collectValues(as, subsequentArgs, i + 1,
                           values \o SubSeq(subsequentArgs, argsUsed + 1, argsUsed + 1 + more),
                           argsUsed + 1 + more)

RECURSIVE drainMulti(_, _, _, _)
\* Parse, the inner loop of a multi value spec among several: values[i+1] is
\* stored, and values becomes append(values[0:i], values[i+2:]...)
drainMulti(as, i, values, st) ==
    LET shorter == SubSeq(values, 1, i) \o SubSeq(values, i + 3, Len(values))
        stored(r) ==
            IF Failed(r) THEN [st |-> r, values |-> shorter]
            ELSE drainMulti(as, i, shorter, r)
    IN  IF i + 1 >= Len(values) THEN [st |-> st, values |-> values]
        ELSE stored(storeArg(as, st.values, as.ValueSpecs[i + 1], values[i + 2]))

\* the first of the supplied values
firstSupplied(values) == values[1]

\* Parse, values[len(values)-1]: the value a comma list reuses when it was given
\* fewer values than it has value specs
lastSupplied(values) == values[Len(values)]

RECURSIVE distribute(_, _, _, _)
\* Parse, the loop that gives each value spec its value
distribute(as, i, values, st) ==
    LET valueSpec == as.ValueSpecs[i + 1]
        drained(d) ==
            IF Failed(d.st) THEN d.st ELSE distribute(as, i + 1, d.values, d.st)
        repeated(r) == IF Failed(r) THEN r ELSE distribute(as, i + 1, values, r)
        stored(r) ==
            IF Failed(r) THEN r
            ELSE IF valueSpec.Multi /\ as.ValuesDelim = " "
                 THEN drained(drainMulti(as, i, values, r))
            ELSE distribute(as, i + 1, values, r)
    IN  IF i >= Len(as.ValueSpecs) THEN st
        ELSE IF i >= Len(values)
             THEN IF as.ValueDelim = ","
                  THEN repeated(storeArg(as, st.values, valueSpec, lastSupplied(values)))
                  ELSE IF valueSpec.Optional THEN st
                  ELSE Bound(FALSE,
                             NewCommandLineError("Required value %s is missing",
                                                 <<valueSpec.OptionName>>),
                             st.values, 0)
        ELSE stored(storeArg(as, st.values, valueSpec, values[i + 1]))

RECURSIVE setDefaults(_, _, _)
\* every value name of specs from position i on is set to its default
setDefaults(specs, i, values) ==
    IF i > Len(specs) THEN values
    ELSE setDefaults(specs, i + 1, Put(values, specs[i].OptionName, specs[i].DefaultValue))

\* argSpec.Parse(effectiveArgs, colonValue, subsequentArgs): colon is
\* splitColon's [hasValue, value]
Parse(as, effectiveArgs, colon, subsequentArgs) ==
    LET takeNext == /\ ~colon.hasValue
                    /\ as.ValuesDelim = " "
                    /\ Len(subsequentArgs) > 0
                    /\ ~isDash(subsequentArgs[1])
        hasInput == colon.hasValue \/ takeNext
        input == IF colon.hasValue THEN colon.value ELSE subsequentArgs[1]
        argsUsed0 == IF takeNext THEN 1 ELSE 0
        n == Len(as.ValueSpecs)
        one(single) ==
            IF Failed(single) THEN single
            ELSE IF as.ValueSpecs[1].Multi /\ as.ValuesDelim = " "
                 THEN absorbMulti(as, as.ValueSpecs[1], subsequentArgs,
                                  Bound(FALSE, NoErr, single.values, argsUsed0))
            ELSE Bound(FALSE, NoErr, single.values, argsUsed0)
        spread(d, argsUsedN) ==
            IF Failed(d) THEN d ELSE Bound(FALSE, NoErr, d.values, argsUsedN)
        several(collected) ==
            IF as.ValueDelim = ","
            THEN spread(distribute(as, 0, Split(input, ","),
                                   Bound(FALSE, NoErr, effectiveArgs, 0)),
                        argsUsed0)
            ELSE spread(distribute(as, 0, collected.values,
                                   Bound(FALSE, NoErr, effectiveArgs, 0)),
                        collected.argsUsed)
        keyed(r) ==
            IF Failed(r) THEN Bound(r.panic, r.err, r.values, 0)
            ELSE Bound(FALSE, NoErr, Put(r.values, as.Key, BoolVal(TRUE)), r.argsUsed)
    IN  keyed(IF ~hasInput
              THEN IF n > 0 /\ ~as.ValueSpecs[1].Optional
                   THEN Bound(FALSE,
                              NewCommandLineError("Required value %s is missing",
                                                  <<as.ValueSpecs[1].OptionName>>),
                              effectiveArgs, 0)
                   ELSE Bound(FALSE, NoErr, setDefaults(as.ValueSpecs, 1, effectiveArgs), 0)
              ELSE IF n = 0
              THEN Bound(FALSE,
                         NewCommandLineError("Unexpected command argument: %s", <<input>>),
                         effectiveArgs, 0)
              ELSE IF n = 1
              THEN one(storeArg(as, effectiveArgs, as.ValueSpecs[1], input))
              ELSE several(collectValues(as, subsequentArgs, 0, <<>>, 0)))

\* ------------------------------------------------------------------ sorting
\* the characters of templates and arguments, in byte order
Ascii ==
    <<" ","*","+",",","-",".","/",
      "0","1","2","3","4","5","6","7","8","9",":","<","=",">","?",
      "A","B","C","D","E","F","G","H","I","J","K","L","M",
      "N","O","P","Q","R","S","T","U","V","W","X","Y","Z",
      "[","]","_",
      "a","b","c","d","e","f","g","h","i","j","k","l","m",
      "n","o","p","q","r","s","t","u","v","w","x","y","z","~">>

Byte(ch) == CHOOSE i \in 1..Len(Ascii) : Ascii[i] = ch

RECURSIVE StrLess(_, _)
\* a < b on Go strings
StrLess(a, b) ==
    IF Len(b) = 0 THEN FALSE
    ELSE IF Len(a) = 0 THEN TRUE
    ELSE IF a[1] # b[1] THEN Byte(a[1]) < Byte(b[1])
    ELSE StrLess(Tail(a), Tail(b))

RECURSIVE sortedKeysDescending(_)
\* sortedKeys sorting the keys in descending order
sortedKeysDescending(keys) ==
    IF keys = {} THEN <<>>
    ELSE LET greatest == CHOOSE k \in keys : \A o \in keys \ {k} : StrLess(o, k)
         IN  <<greatest>> \o sortedKeysDescending(keys \ {greatest})

RECURSIVE sortedKeys(_)
\* sortedKeys(m), given the key set of m
sortedKeys(keys) ==
    IF keys = {} THEN <<>>
    ELSE LET least == CHOOSE k \in keys : \A o \in keys \ {k} : StrLess(k, o)
         IN  <<least>> \o sortedKeys(keys \ {least})

\* ------------------------------------------------------------------ printer
\* a defaultPrinter whose status is paused pauseCount times; out is what it
\* has written to standard output, line by line, and open is the line it has
\* begun and not ended. A call made after a panic is never made: the panic
\* has unwound the caller.
defaultPrinter(pauseCount) ==
    [pauseCount |-> pauseCount, nestedPrint |-> FALSE, panic |-> "",
     out |-> <<>>, open |-> <<>>]

\* dp.PauseStatus(); no status text is shown, so Status("") prints nothing
PauseStatus(dp) == [dp EXCEPT !.pauseCount = dp.pauseCount + 1]

\* dp.ResumeStatus()
ResumeStatus(dp) ==
    IF dp.pauseCount = 0 THEN dp
    ELSE [dp EXCEPT !.pauseCount = dp.pauseCount - 1]

\* dp.Println(text)
Println(dp, text) ==
    IF dp.panic # "" THEN dp
    ELSE IF dp.nestedPrint THEN [dp EXCEPT !.panic = "in a nested print"]
    ELSE LET paused == PauseStatus(dp)
         IN  ResumeStatus([paused EXCEPT !.out = Append(paused.out, text)])

\* dp.BeginPrint(text)
BeginPrint(dp, text) ==
    IF dp.panic # "" THEN dp
    ELSE IF dp.nestedPrint THEN [dp EXCEPT !.panic = "in a nested print"]
    ELSE LET paused == PauseStatus(dp)
         IN  [paused EXCEPT !.open = text, !.nestedPrint = TRUE]

\* dp.ContinuePrint(text)
ContinuePrint(dp, text) ==
    IF dp.panic # "" THEN dp
    ELSE IF ~dp.nestedPrint
         THEN [dp EXCEPT !.panic = "segmented printing didn't begin yet"]
    ELSE [dp EXCEPT !.open = dp.open \o text]

\* dp.EndPrint(text)
EndPrint(dp, text) ==
    IF dp.panic # "" THEN dp
    ELSE IF ~dp.nestedPrint
         THEN [dp EXCEPT !.panic = "segmented printing didn't begin yet"]
    ELSE LET resumed == ResumeStatus([dp EXCEPT !.out = Append(dp.out, dp.open \o text),
                                                !.open = <<>>])
         IN  [resumed EXCEPT !.nestedPrint = FALSE]

\* ------------------------------------------------------------------ registry
VARIABLES
    commands,       \* cl.commands: command key -> command
    unnamedCmd,     \* cl.unnamedCmd: <<>> for nil, <<cmd>> for a command
    globalOptions,  \* cl.globalOptions: option key -> globalOption
    nregs,          \* registration calls made so far
    aborted,        \* some registration call has panicked
    op,             \* the last call: "none", "RegisterCommand", "RegisterGlobalOption", "Process"
    req,            \* the last registration's arguments [handler, specs]
    panicked,       \* the last call panicked
    argv,           \* the last Process call's args
    err,            \* the error the last Process call returned
    calls,          \* the handlers the last Process call invoked, in order
    printQueue,     \* cl.printQueue: what the Help call after it queued
    trip,           \* a template on its way through newArgSpec and String
    procs,          \* the Process calls in progress at the same time
    helpQueue,      \* cl.printQueue line by line, for the rendering calls
    Prn,            \* the process-wide printer and the lines it has printed
    helpCalls       \* the help calls in progress at the same time

vars == <<commands, unnamedCmd, globalOptions, nregs, aborted, op, req, panicked,
          argv, err, calls, printQueue, trip, procs, helpQueue, Prn, helpCalls>>

\* the variables of help rendering
rendering == <<helpQueue, Prn, helpCalls>>

\* the variables the registration and Process calls leave alone
queries == <<printQueue, trip, procs, rendering>>

registry == <<commands, unnamedCmd, globalOptions>>

\* a handler is known by a number; the handlers of FailingHandlers return an
\* error, the others nil
FailingHandlers == {2}

HandlerError(handler) ==
    IF handler \in FailingHandlers THEN Err("error", "handler error", <<>>, handler)
    ELSE NoErr

\* newOrderedArgSpecMap and add, folded over the compiled option specs
orderedArgSpecMap(specs) ==
    LET keys == {specs[i].Key : i \in 1..Len(specs)}
        last(k) == CHOOSE i \in 1..Len(specs) :
                      /\ specs[i].Key = k
                      /\ \A j \in 1..Len(specs) : specs[j].Key = k => j <= i
    IN  [values |-> [k \in keys |-> specs[last(k)]],
         order |-> [i \in 1..Len(specs) |-> specs[i].Key]]

\* newCommand(handler, specList...): panic is "" unless a template panicked
newCommand(handler, specList) ==
    LET compiled(primary, options) ==
            LET bad == {i \in 1..Len(options) : options[i].panic # ""}
            IN  IF primary.panic # "" THEN [panic |-> primary.panic, cmd |-> <<>>]
                ELSE IF bad # {}
                     THEN [panic |-> options[CHOOSE i \in bad : \A j \in bad : i <= j].panic,
                           cmd |-> <<>>]
                ELSE [panic |-> "",
                      cmd |-> [Handler |-> handler, PrimaryArgSpec |-> primary,
                               OptionSpecs |-> orderedArgSpecMap(options)]]
    IN  IF Len(specList) = 0 THEN [panic |-> "specList is required", cmd |-> <<>>]
        ELSE compiled(newArgSpec(specList[1], TRUE),
                      [i \in 1..(Len(specList) - 1) |-> newArgSpec(specList[i + 1], FALSE)])

\* newGlobalOption(handler, spec)
newGlobalOption(handler, spec) ==
    LET compiled(as) == [panic |-> as.panic, opt |-> [Handler |-> handler, argSpec |-> as]]
    IN  compiled(newArgSpec(spec, FALSE))

\* checkForDuplicateName without the panic: the name is recorded only
checkForDuplicateNameLax(chk, spec) ==
    [panic |-> chk.panic, names |-> chk.names \cup {spec}]

\* checkForDuplicateName(names, spec): chk is [panic, names]
checkForDuplicateName(chk, spec) ==
    [panic |-> chk.panic \/ spec \in chk.names, names |-> chk.names \cup {spec}]

RECURSIVE checkEach(_, _)
\* checkForDuplicateName over a sequence of names
checkEach(chk, names) ==
    IF Len(names) = 0 THEN chk
    ELSE checkEach(checkForDuplicateName(chk, Head(names)), Tail(names))

\* the value names of an argSpec, in order
valueNames(as) == [i \in 1..Len(as.ValueSpecs) |-> as.ValueSpecs[i].OptionName]

RECURSIVE optionNames(_, _)
\* each option's key and value names, over the keys of the OptionSpecs map
optionNames(cmd, keys) ==
    IF Len(keys) = 0 THEN <<>>
    ELSE <<Head(keys)>> \o valueNames(cmd.OptionSpecs.values[Head(keys)])
         \o optionNames(cmd, Tail(keys))

\* checkForDuplicateNames, the names one command is checked for beyond its key
commandNames(cmd) ==
    valueNames(cmd.PrimaryArgSpec)
    \o optionNames(cmd, sortedKeys(DOMAIN cmd.OptionSpecs.values))

RECURSIVE checkCommands(_, _)
\* checkForDuplicateNames, the loop over allCommands: TRUE when it panics
checkCommands(allCommands, chk) ==
    IF chk.panic THEN TRUE
    ELSE IF Len(allCommands) = 0 THEN FALSE
    ELSE LET cmd == Head(allCommands)
             names == checkForDuplicateName(chk, cmd.PrimaryArgSpec.Key)
             cmdNames == checkEach(names, commandNames(cmd))
         IN  IF names.panic \/ cmdNames.panic THEN TRUE
             ELSE checkCommands(Tail(allCommands), names)

\* checkForDuplicateNames(newCmd) on the maps globals and cmds; order is the
\* order in which Go's range visits the keys of cmds, newCmd is <<>> for nil;
\* TRUE when it panics
checkForDuplicateNames(globals, cmds, order, newCmd) ==
    LET names == checkEach([panic |-> FALSE, names |-> {}], sortedKeys(DOMAIN globals))
        allCommands == [i \in 1..Len(order) |-> cmds[order[i]]] \o newCmd
    IN  checkCommands(allCommands, names)

\* the orders in which a range over a map with these keys can visit them
RangeOrders(keys) ==
    {f \in [1..Cardinality(keys) -> keys] : \A i, j \in DOMAIN f : f[i] = f[j] => i = j}

\* unnamedMode with the else branch lost: a later named command leaves the
\* unnamed command in place
unnamedModeKept(cmds, cmd) ==
    IF cmd.PrimaryArgSpec.Unnamed THEN <<cmd>> ELSE unnamedCmd

\* RegisterCommand, the unnamed command after cmd was stored in cmds
unnamedMode(cmds, cmd) ==
    IF Cardinality(DOMAIN cmds) = 1 /\ cmd.PrimaryArgSpec.Unnamed THEN <<cmd>> ELSE <<>>

\* ------------------------------------------------------------------ dispatch
\* one handler invocation: which kind of handler, the handler, the key of its
\* spec and the Values it was given
Call(kind, handler, key, values) ==
    [kind |-> kind, handler |-> handler, key |-> key, values |-> values]

\* what a Process call did: it panicked, or returned err after making calls
Outcome(panic, e, cs) == [panic |-> panic, err |-> e, calls |-> cs]

\* newGlobalOptionToRun(globalOpt, colonValue, subsequentArgs)
newGlobalOptionToRun(globalOpt, colon, subsequentArgs) ==
    LET parsed(r) == [panic |-> r.panic, err |-> r.err, argsUsed |-> r.argsUsed,
                      gotr |-> [Option |-> globalOpt, Values |-> r.values]]
    IN  parsed(Parse(globalOpt.argSpec, EmptyMap, colon, subsequentArgs))

\* whether Process takes the argument arg for a global option
isGlobalArg(arg) == splitColon(arg).switch \in DOMAIN globalOptions

RECURSIVE globalScanBeforeCommand(_, _, _, _)
\* globalScan stopping at the command: once an argument was kept for the
\* command, no later argument is taken for a global option
globalScanBeforeCommand(args, i, globalOptionsToRun, commandArgs) ==
    LET queued(g) ==
            IF g.panic \/ g.err.type # "nil"
            THEN [panic |-> g.panic, err |-> g.err,
                  globalOptionsToRun |-> globalOptionsToRun,
                  commandArgs |-> commandArgs]
            ELSE globalScanBeforeCommand(args, i + 1 + g.argsUsed, Append(globalOptionsToRun, g.gotr),
                      commandArgs)
        option(sc) ==
            queued(newGlobalOptionToRun(globalOptions[sc.switch], sc, From(args, i + 1)))
    IN  IF i >= Len(args)
        THEN [panic |-> FALSE, err |-> NoErr, globalOptionsToRun |-> globalOptionsToRun,
              commandArgs |-> commandArgs]
        ELSE IF isGlobalArg(args[i + 1]) /\ commandArgs = <<>>
             THEN option(splitColon(args[i + 1]))
        ELSE globalScanBeforeCommand(args, i + 1, globalOptionsToRun, Append(commandArgs, args[i + 1]))

RECURSIVE globalScan(_, _, _, _)
\* Process, "Extract all global args": the loop over args from position i on
globalScan(args, i, globalOptionsToRun, commandArgs) ==
    LET queued(g) ==
            IF g.panic \/ g.err.type # "nil"
            THEN [panic |-> g.panic, err |-> g.err,
                  globalOptionsToRun |-> globalOptionsToRun,
                  commandArgs |-> commandArgs]
            ELSE globalScan(args, i + 1 + g.argsUsed, Append(globalOptionsToRun, g.gotr),
                      commandArgs)
        option(sc) ==
            queued(newGlobalOptionToRun(globalOptions[sc.switch], sc, From(args, i + 1)))
    IN  IF i >= Len(args)
        THEN [panic |-> FALSE, err |-> NoErr, globalOptionsToRun |-> globalOptionsToRun,
              commandArgs |-> commandArgs]
        ELSE IF isGlobalArg(args[i + 1])
             THEN option(splitColon(args[i + 1]))
        ELSE globalScan(args, i + 1, globalOptionsToRun, Append(commandArgs, args[i + 1]))

\* runOrder turned round: the option queued last runs first
runOrderReversed(globalOptionsToRun) ==
    [i \in 1..Len(globalOptionsToRun) |->
        globalOptionsToRun[Len(globalOptionsToRun) + 1 - i]]

\* the order in which Process runs the queued global options
runOrder(globalOptionsToRun) == globalOptionsToRun

RECURSIVE runGlobalsAll(_, _, _)
\* the handlers all run, and the first error is kept in e
runGlobalsAll(toRun, cs, e) ==
    IF Len(toRun) = 0 THEN Outcome(FALSE, e, cs)
    ELSE LET g == Head(toRun)
             cs1 == Append(cs, Call("global", g.Option.Handler, g.Option.argSpec.Key,
                                    g.Values))
         IN  runGlobalsAll(Tail(toRun), cs1,
                           IF e.type # "nil" THEN e ELSE HandlerError(g.Option.Handler))

\* runGlobals without the return on an error: the first error is returned
\* after every queued handler has run
runGlobalsOn(toRun, cs) == runGlobalsAll(toRun, cs, NoErr)

RECURSIVE runGlobals(_, _)
\* Process, "Execute the global options": the handlers run in order until one
\* returns an error
runGlobals(toRun, cs) ==
    IF Len(toRun) = 0 THEN Outcome(FALSE, NoErr, cs)
    ELSE LET g == Head(toRun)
             e == HandlerError(g.Option.Handler)
             cs1 == Append(cs, Call("global", g.Option.Handler, g.Option.argSpec.Key,
                                    g.Values))
         IN  IF e.type # "nil" THEN Outcome(FALSE, e, cs1)
             ELSE runGlobals(Tail(toRun), cs1)

\* findCommand without the unnamed-command branch for a non-empty argument
\* list: the first argument is always looked up as a command key
findCommandNamedOnly(args) ==
    LET sc == splitColon(args[1])
        nil == [hasValue |-> FALSE, value |-> <<>>]
    IN  IF Len(args) = 0
        THEN IF unnamedCmd = <<>>
             THEN [err |-> NewCommandLineError("A command is required", <<>>),
                   cmd |-> <<>>, argBaseIndex |-> 0, primaryArgValue |-> nil]
             ELSE [err |-> NoErr, cmd |-> unnamedCmd, argBaseIndex |-> 0,
                   primaryArgValue |-> nil]
        ELSE IF sc.switch \in DOMAIN commands
        THEN [err |-> NoErr, cmd |-> <<commands[sc.switch]>>, argBaseIndex |-> 1,
              primaryArgValue |-> [hasValue |-> sc.hasValue, value |-> sc.value]]
        ELSE [err |-> NewCommandLineError("Unrecognized command: ", <<sc.switch>>),
              cmd |-> <<>>, argBaseIndex |-> 1, primaryArgValue |-> nil]

\* Process, "Find the command to run": cmd is <<>> when none was found
findCommand(args) ==
    LET sc == splitColon(args[1])
        nil == [hasValue |-> FALSE, value |-> <<>>]
    IN  IF Len(args) = 0
        THEN IF unnamedCmd = <<>>
             THEN [err |-> NewCommandLineError("A command is required", <<>>),
                   cmd |-> <<>>, argBaseIndex |-> 0, primaryArgValue |-> nil]
             ELSE [err |-> NoErr, cmd |-> unnamedCmd, argBaseIndex |-> 0,
                   primaryArgValue |-> nil]
        ELSE IF unnamedCmd # <<>>
        THEN [err |-> NoErr, cmd |-> unnamedCmd, argBaseIndex |-> 0,
              primaryArgValue |-> nil]
        ELSE IF sc.switch \in DOMAIN commands
        THEN [err |-> NoErr, cmd |-> <<commands[sc.switch]>>, argBaseIndex |-> 1,
              primaryArgValue |-> [hasValue |-> sc.hasValue, value |-> sc.value]]
        ELSE [err |-> NewCommandLineError("Unrecognized command: ", <<sc.switch>>),
              cmd |-> <<>>, argBaseIndex |-> 1, primaryArgValue |-> nil]

RECURSIVE optionScan(_, _, _, _)
\* Process, "Add options to the command": the loop over args from position i
\* on; st is the binding so far, its argsUsed unused
optionScan(cmd, args, i, st) ==
    LET sc == splitColon(args[i + 1])
        seen(more) == [st |-> more.st, seen |-> more.seen \cup {sc.switch}]
        parsed(r) ==
            IF Failed(r) THEN [st |-> r, seen |-> {}]
            ELSE seen(optionScan(cmd, args, i + 1 + r.argsUsed, r))
    IN  IF i >= Len(args) THEN [st |-> st, seen |-> {}]
        ELSE IF sc.switch \notin DOMAIN cmd.OptionSpecs.values
             THEN [st |-> Bound(FALSE,
                                NewCommandLineError("Unrecognized command argument: ",
                                                    <<sc.switch>>),
                                st.values, 0),
                   seen |-> {}]
        ELSE parsed(Parse(cmd.OptionSpecs.values[sc.switch],
                          Put(st.values, sc.switch, BoolVal(TRUE)),
                          [hasValue |-> sc.hasValue, value |-> sc.value],
                          From(args, i + 1)))

\* addDefaults(cmdToRun, as) on the values of cmdToRun
addDefaults(values, as) ==
    LET withKey == IF as.Key \in DOMAIN values THEN values
                   ELSE Put(values, as.Key, BoolVal(FALSE))
        missing == {i \in 1..Len(as.ValueSpecs) :
                       as.ValueSpecs[i].OptionName \notin DOMAIN values}
        def(name) == as.ValueSpecs[CHOOSE i \in missing :
                         /\ as.ValueSpecs[i].OptionName = name
                         /\ \A j \in missing :
                               as.ValueSpecs[j].OptionName = name => i <= j].DefaultValue
        names == {as.ValueSpecs[i].OptionName : i \in missing}
    IN  [x \in (DOMAIN withKey) \cup names |->
            IF x \in DOMAIN withKey THEN withKey[x] ELSE def(x)]

RECURSIVE defaultOptions(_, _, _)
\* Process, "Put empty values in for all optional and unspecified options"
defaultOptions(cmd, keys, values) ==
    IF Len(keys) = 0 THEN values
    ELSE LET optionSpec == cmd.OptionSpecs.values[Head(keys)]
         IN  defaultOptions(cmd, Tail(keys),
                            IF optionSpec.Optional THEN addDefaults(values, optionSpec)
                            ELSE values)

\* Process from the required options on: the options given were scanned, the
\* defaults are filled in and the handler runs
invokeCommand(cmd, scan, cs) ==
    LET keys == DOMAIN cmd.OptionSpecs.values
        requiredOptions == {k \in keys : ~cmd.OptionSpecs.values[k].Optional} \ scan.seen
        values == addDefaults(defaultOptions(cmd, sortedKeys(keys), scan.st.values),
                              cmd.PrimaryArgSpec)
    IN  IF requiredOptions # {}
        THEN Outcome(FALSE,
                     NewCommandLineError("Arguments required: %s",
                                         sortedKeys(requiredOptions)), cs)
        ELSE Outcome(FALSE, HandlerError(cmd.Handler),
                     Append(cs, Call("command", cmd.Handler, cmd.PrimaryArgSpec.Key,
                                     values)))

\* Process from "Find the command to run" on, given the command arguments and
\* the calls made so far
runCommand(args, cs) ==
    LET scanned(cmd, scan) ==
            IF Failed(scan.st) THEN Outcome(scan.st.panic, scan.st.err, cs)
            ELSE invokeCommand(cmd, scan, cs)
        bound(found, primary) ==
            IF Failed(primary) THEN Outcome(primary.panic, primary.err, cs)
            ELSE scanned(found.cmd[1],
                         optionScan(found.cmd[1], args,
                                    found.argBaseIndex + primary.argsUsed, primary))
        resolved(found) ==
            IF found.err.type # "nil" THEN Outcome(FALSE, found.err, cs)
            ELSE bound(found,
                       Parse(found.cmd[1].PrimaryArgSpec, EmptyMap, found.primaryArgValue,
                             From(args, found.argBaseIndex)))
    IN  resolved(findCommand(args))

\* Process(args) on a registry with at least one command
process(args) ==
    LET ran(scan, globals) ==
            IF globals.err.type # "nil" THEN globals
            ELSE runCommand(scan.commandArgs, globals.calls)
        scanned(scan) ==
            IF scan.panic \/ scan.err.type # "nil" THEN Outcome(scan.panic, scan.err, <<>>)
            ELSE ran(scan, runGlobals(runOrder(scan.globalOptionsToRun), <<>>))
    IN  scanned(globalScan(args, 0, <<>>, <<>>))

\* ------------------------------------------------------------------ help
\* the arguments whose part before the first ":" is not in keys
FilteredArgs(args, keys) == SelectSeq(args, LAMBDA arg : Split(arg, ":")[1] \notin keys)

\* CommandLine.PrimaryCommand(args): the arguments naming a global option are
\* dropped, and the first of the others whose part before ":" is a command key
\* is returned without what follows the ":"; "" when there is none
PrimaryCommand(args) ==
    LET filteredArgs == FilteredArgs(args, DOMAIN globalOptions)
        hits == {i \in 1..Len(filteredArgs) : Split(filteredArgs[i], ":")[1] \in DOMAIN commands}
    IN  IF hits = {} THEN <<>>
        ELSE Split(filteredArgs[CHOOSE i \in hits : \A j \in hits : i <= j], ":")[1]

\* sortCompare(a, b): the order of the help lines, letter case ignored first
sortCompare(a, b) ==
    IF ToLower(a) = ToLower(b) THEN StrLess(a, b) ELSE StrLess(ToLower(a), ToLower(b))

RECURSIVE sortedByText(_, _)
\* sort.SliceStable with sortCompare on the texts: the keys in the order of
\* text[k]
sortedByText(keys, text) ==
    IF keys = {} THEN <<>>
    ELSE LET first == CHOOSE k \in keys : \A o \in keys \ {k} : ~sortCompare(text[o], text[k])
         IN  <<first>> \o sortedByText(keys \ {first}, text)

\* the option specs of a command, as optionSpecValues collects them
optionSpecValues(cmd) == {cmd.OptionSpecs.values[k] : k \in DOMAIN cmd.OptionSpecs.values}

\* shouldShow(primaryArgSpec, optionSpecs, filter); optionSpecs is {} for nil
shouldShow(primaryArgSpec, optionSpecs, filter) ==
    LET trimmed == TrimSpace(filter)
    IN  \/ Len(trimmed) = 0
        \/ Contains(primaryArgSpec.Key, trimmed)
        \/ Contains(ToLower(primaryArgSpec.HelpText), trimmed)
        \/ \E option \in optionSpecs :
              \/ Contains(ToLower(option.Key), trimmed)
              \/ Contains(ToLower(option.HelpText), trimmed)

\* what printCommandsWorker queues: the heading and the keys of the global
\* options shown, the heading and the keys of the commands shown, each in the
\* order of its lines, whether the commands' own lines are printed, and the
\* note printed when nothing is shown ("": not printed)
Listing(globalsHeading, globals, commandsHeading, cmds, primaryLines, note) ==
    [globalsHeading |-> globalsHeading, globals |-> globals,
     commandsHeading |-> commandsHeading, commands |-> cmds,
     primaryLines |-> primaryLines, note |-> note]

NoListing == Listing("", <<>>, "", <<>>, FALSE, "")

\* printCommandsWorker(filter, includeGlobal); order is the order in which the
\* range visits cl.commands
printCommandsWorker(filter, includeGlobal, order) ==
    LET lowered == ToLower(TrimSpace(filter))
        singleCmd == IF Len(order) % 2 = 1 THEN <<commands[order[Len(order)]]>> ELSE <<>>
        simpleDescription ==
            /\ singleCmd # <<>>
            /\ singleCmd[1].PrimaryArgSpec.Unnamed
            /\ Len(singleCmd[1].PrimaryArgSpec.HelpText) > 0
            /\ optionSpecValues(singleCmd[1]) = {}
            /\ Len(singleCmd[1].PrimaryArgSpec.ValueSpecs) = 0
        hasOptions ==
            \E k \in DOMAIN commands :
                \/ optionSpecValues(commands[k]) # {}
                \/ Len(commands[k].PrimaryArgSpec.ValueSpecs) > 0
        queued(globalsToPrint, matching, commandsToPrint) ==
            Listing(IF globalsToPrint = {} THEN ""
                    ELSE IF includeGlobal /\ globalsToPrint # DOMAIN globalOptions
                         THEN "Matching Global Options:"
                    ELSE "Global Options:",
                    sortedByText(globalsToPrint,
                                 [k \in globalsToPrint |-> String(globalOptions[k].argSpec)]),
                    IF commandsToPrint = {} THEN ""
                    ELSE IF matching # DOMAIN commands THEN "Matching Commands:"
                    ELSE IF Cardinality(DOMAIN commands) > 1 THEN "All Commands:"
                    ELSE IF simpleDescription THEN "Description: "
                    ELSE "Command Options:",
                    sortedByText(commandsToPrint,
                                 [k \in commandsToPrint |-> String(commands[k].PrimaryArgSpec)]),
                    commandsToPrint # {} /\ ~simpleDescription,
                    IF commandsToPrint # {} \/ globalsToPrint # {} THEN ""
                    ELSE IF Len(lowered) > 0 THEN "No commands match help filter '%s'."
                    ELSE IF ~hasOptions THEN "This command has no options."
                    ELSE "No help is available.")
        matched(globalsToPrint, matching) ==
            queued(globalsToPrint, matching,
                   {k \in matching :
                       \/ ~commands[k].PrimaryArgSpec.Unnamed
                       \/ Len(commands[k].PrimaryArgSpec.HelpText) > 0
                       \/ Len(commands[k].PrimaryArgSpec.ValueSpecs) > 0
                       \/ optionSpecValues(commands[k]) # {}})
    IN  matched(IF includeGlobal
                THEN {k \in DOMAIN globalOptions :
                         shouldShow(globalOptions[k].argSpec, {}, filter)}
                ELSE {},
                {k \in DOMAIN commands :
                    shouldShow(commands[k].PrimaryArgSpec, optionSpecValues(commands[k]),
                               lowered)})

\* printCommandWorker(cmdstr): the command whose help is queued (<<>>: none)
\* and the error returned ("": nil)
printCommandWorker(cmdstr) ==
    LET wantUnnamed == Len(cmdstr) = 0 \/ cmdstr = <<"~">>
        key == IF wantUnnamed THEN <<"~">> ELSE cmdstr
    IN  IF key \notin DOMAIN commands
        THEN [command |-> <<>>,
              err |-> IF wantUnnamed THEN "unnamed command not found"
                      ELSE "command \"%s\" not found"]
        ELSE IF /\ Len(commands[key].PrimaryArgSpec.HelpText) = 0
                /\ optionSpecValues(commands[key]) = {}
        THEN [command |-> <<>>,
              err |-> IF wantUnnamed THEN "help not available for the unnamed command"
                      ELSE "help not available for the command"]
        ELSE [command |-> <<key>>, err |-> ""]

\* the name of the program in the usage line
AppName == <<"a", "p", "p">>

RECURSIVE helpLenOf(_)
\* Help, helpLen: 60 for each line and the lengths of its help text and spec
helpLenOf(specs) ==
    IF specs = {} THEN 0
    ELSE LET as == CHOOSE x \in specs : TRUE
         IN  60 + Len(as.HelpText) + Len(String(as)) + helpLenOf(specs \ {as})

RECURSIVE helpLen(_)
helpLen(keys) ==
    IF keys = {} THEN 0
    ELSE LET k == CHOOSE x \in keys : TRUE
         IN  helpLenOf({commands[k].PrimaryArgSpec}) + helpLenOf(optionSpecValues(commands[k]))
             + helpLen(keys \ {k})

\* what Help queues: kind is "error" (the message of err alone), "listing" (the
\* commands matching filter), "command" (the syntax error heading and the help
\* of the command named) or "usage" (the usage line, the listing of everything
\* and, when hint, how to search the help)
Queued(kind, message, filter, listing, command, usage, hint) ==
    [kind |-> kind, message |-> message, filter |-> filter, listing |-> listing,
     command |-> command, usage |-> usage, hint |-> hint]

NoUsage == [appName |-> <<>>, options |-> "", cmdToken |-> "", cmdOptions |-> ""]

NoHelp == Queued("none", NoErr, <<>>, NoListing, <<>>, NoUsage, FALSE)

\* Help, the branch taken for no error and for a command-line error: the
\* filtered listing, the help of the command named in args, or the usage (the
\* hint's example names the first registered command)
helpForUsage(appName, args, order) ==
    LET isHelp == Len(args) > 0 /\ (args[1] \in {<<"h","e","l","p">>, <<"-","-","h","e","l","p">>}
                                     \/ HasSuffix(args[1], <<"?">>))
        named == IF args[1] \in {<<"h","e","l","p">>, <<"-","-","h","e","l","p">>}
                 THEN IF Len(args) = 2 THEN args[2] ELSE <<>>
                 ELSE IF Len(args) = 1 THEN args[1] ELSE <<>>
        cut == SubSeq(named, 1, Len(named) - 1)
        filter == IF HasSuffix(named, <<"?">>)
                  THEN IF cut \in {<<"-">>, <<"-", "-">>} THEN <<>> ELSE cut
                  ELSE named
        options == IF DOMAIN globalOptions = {} THEN ""
                   ELSE IF Cardinality(DOMAIN commands) = 1 THEN " <options>"
                   ELSE " <global options>"
        cmdOptions0 == IF \E k \in DOMAIN commands :
                              \/ optionSpecValues(commands[k]) # {}
                              \/ Len(commands[k].PrimaryArgSpec.ValueSpecs) > 0
                       THEN " <options>" ELSE ""
    IN  IF isHelp
        THEN Queued("listing", NoErr, filter, printCommandsWorker(filter, TRUE, order),
                    <<>>, NoUsage, FALSE)
        ELSE IF Len(args) > 0 /\ Len(PrimaryCommand(args)) > 0
        THEN Queued("command", NoErr, <<>>, NoListing,
                    printCommandWorker(PrimaryCommand(args)).command, NoUsage, FALSE)
        ELSE Queued("usage", NoErr, <<>>, printCommandsWorker(<<>>, TRUE, order), <<>>,
                    [appName |-> appName, options |-> options,
                     cmdToken |-> IF unnamedCmd # <<>> THEN "" ELSE " <command>",
                     cmdOptions |-> IF cmdOptions0 = options THEN "" ELSE cmdOptions0],
                    helpLen(DOMAIN commands) \div 60 >= 10)

\* Help treating every error as a command-line error
helpAnyError(e, appName, args, order) == helpForUsage(appName, args, order)

\* CommandLine.Help(err, appName, args); order is the order in which the
\* ranges visit cl.commands
help(e, appName, args, order) ==
    IF e.type \in {"nil", "CommandLineError"}
    THEN helpForUsage(appName, args, order)
    ELSE Queued("error", e, <<>>, NoListing, <<>>, NoUsage, FALSE)

\* ------------------------------------------------------------------ inputs
\* the templates of the registration calls
T_unnamed == <<"~">>
T_rest == <<"~"," ","*","<","s","t","r","i","n","g","-","r",">">>
T_a == <<"a">>
T_a_v == <<"a",":","<","s","t","r","i","n","g","-","v",">">>
T_b_v == <<"b",":","<","s","t","r","i","n","g","-","v",">">>
T_c == <<"c">>
T_x == <<"-","x">>
T_x_v == <<"-","x",":","<","s","t","r","i","n","g","-","v",">">>
T_x_c == <<"-","x",":","<","s","t","r","i","n","g","-","c",">">>
T_d_a == <<"d",":","<","s","t","r","i","n","g","-","a",">">>
T_bad == <<"a",":","<","b","o","g","u","s","-","v",">">>
T_g == <<"-","g">>
T_g_w == <<"-","g",":","<","s","t","r","i","n","g","-","w",">">>
T_f == <<"-","f">>
T_v == <<"v">>
T_h_a == <<"-","h",":","<","s","t","r","i","n","g","-","a",">">>
T_novalue == <<"-","g",":">>

\* the RegisterCommand calls: a handler and the spec list
CommandCalls ==
    { [handler |-> 1, specs |-> <<T_unnamed>>],
      [handler |-> 1, specs |-> <<T_rest>>],
      [handler |-> 1, specs |-> <<T_a>>],
      [handler |-> 2, specs |-> <<T_a_v>>],
      [handler |-> 1, specs |-> <<T_b_v>>],
      [handler |-> 1, specs |-> <<T_c, T_x_v>>],
      [handler |-> 1, specs |-> <<T_c, T_x, T_x_v>>],
      [handler |-> 1, specs |-> <<T_c, T_x_c>>],
      [handler |-> 1, specs |-> <<T_d_a>>],
      [handler |-> 1, specs |-> <<T_bad>>],
      [handler |-> 1, specs |-> <<>>] }

\* the RegisterGlobalOption calls: a handler and the spec
GlobalCalls ==
    { [handler |-> 1, specs |-> <<T_g>>],
      [handler |-> 2, specs |-> <<T_g_w>>],
      [handler |-> 2, specs |-> <<T_f>>],
      [handler |-> 1, specs |-> <<T_a>>],
      [handler |-> 1, specs |-> <<T_x>>],
      [handler |-> 1, specs |-> <<T_v>>],
      [handler |-> 1, specs |-> <<T_h_a>>],
      [handler |-> 1, specs |-> <<T_novalue>>] }

\* the argument lists of the Process calls
Args ==
    { <<>>,
      << <<"a">> >>,
      << <<"a",":","q">> >>,
      << <<"z">> >>,
      << <<"z",":","q">> >>,
      << <<"q">>, <<"r">> >>,
      << <<"b",":","q">> >>,
      << <<"c">>, <<"-","x",":","q">> >>,
      << <<"-","g">> >>,
      << <<"-","g">>, <<"a">> >>,
      << <<"a">>, <<"-","g">> >>,
      << <<"-","g",":","q">>, <<"a">> >>,
      << <<"-","f">>, <<"a">> >>,
      << <<"-","g">>, <<"-","f">>, <<"a">> >>,
      << <<"-","f">>, <<"-","g">>, <<"a">> >>,
      << <<"-","g">>, <<"-","g">>, <<"b",":","q">> >>,
      << <<"c">>, <<"-","x",":","q">>, <<"-","g">> >>,
      << <<"-","x">>, <<"-","g">>, <<"a">> >> }

\* ------------------------------------------------------------------ the state machine
\* a template on its way through the compiler and back: stage is "none",
\* "template" (chosen), "compiled" (as is newArgSpec of it), "text" (text is
\* as.String()) or "again" (again is newArgSpec of the text)
Trip(stage, primaryArg, template, as, text, again) ==
    [stage |-> stage, primaryArg |-> primaryArg, template |-> template, as |-> as,
     text |-> text, again |-> again]

NoTrip == Trip("none", FALSE, <<>>, PanicSpec(""), <<>>, PanicSpec(""))

\* A state is the registry together with the last call made on it and what that
\* call did.  Process writes no registry state, so the calls that can follow a
\* Process call are the calls that can be made in its place: they are explored
\* from the state that call started in, and a state reached by Process has no
\* successors of its own.
Init ==
    /\ commands = <<>>
    /\ unnamedCmd = <<>>
    /\ globalOptions = <<>>
    /\ nregs = 0
    /\ aborted = FALSE
    /\ op = "none"
    /\ req = [handler |-> 0, specs |-> <<>>]
    /\ panicked = FALSE
    /\ argv = <<>>
    /\ err = NoErr
    /\ calls = <<>>
    /\ printQueue = NoHelp
    /\ trip = NoTrip
    /\ procs = <<>>
    /\ helpQueue = <<>>
    /\ Prn = defaultPrinter(0)
    /\ helpCalls = <<>>

\* RegisterCommand(handler, specList...); order is the order in which the
\* duplicate check's range visits cl.commands
RegisterCommand(handler, specList, order) ==
    LET made(nc) ==
            LET ok == /\ nc.panic = ""
                      /\ ~checkForDuplicateNames(globalOptions, commands, order, <<nc.cmd>>)
                cmds == Put(commands, nc.cmd.PrimaryArgSpec.Key, nc.cmd)
            IN  /\ panicked' = ~ok
                /\ aborted' = (aborted \/ ~ok)
                /\ commands' = IF ok THEN cmds ELSE commands
                /\ unnamedCmd' = IF ok THEN unnamedMode(cmds, nc.cmd) ELSE unnamedCmd
    IN  /\ op # "Process"
        /\ nregs < MaxRegs
        /\ nregs' = nregs + 1
        /\ op' = "RegisterCommand"
        /\ req' = [handler |-> handler, specs |-> specList]
        /\ made(newCommand(handler, specList))
        /\ argv' = <<>> /\ err' = NoErr /\ calls' = <<>>
        /\ UNCHANGED <<globalOptions, queries>>

\* RegisterGlobalOption(handler, spec): the option is stored before the
\* duplicate check runs
RegisterGlobalOption(handler, spec, order) ==
    LET made(ng) ==
            LET globals == Put(globalOptions, ng.opt.argSpec.Key, ng.opt)
                ok == /\ ng.panic = ""
                      /\ ~checkForDuplicateNames(globals, commands, order, <<>>)
            IN  /\ panicked' = ~ok
                /\ aborted' = (aborted \/ ~ok)
                /\ globalOptions' = IF ng.panic = "" THEN globals ELSE globalOptions
    IN  /\ op # "Process"
        /\ nregs < MaxRegs
        /\ nregs' = nregs + 1
        /\ op' = "RegisterGlobalOption"
        /\ req' = [handler |-> handler, specs |-> <<spec>>]
        /\ made(newGlobalOption(handler, spec))
        /\ argv' = <<>> /\ err' = NoErr /\ calls' = <<>>
        /\ UNCHANGED <<commands, unnamedCmd, queries>>

\* Process(args): it panics on a registry without commands
Process(args) ==
    LET returned(out) ==
            /\ panicked' = out.panic
            /\ err' = out.err
            /\ calls' = out.calls
    IN  /\ op # "Process"
        /\ op' = "Process"
        /\ argv' = args
        /\ returned(IF DOMAIN commands = {} THEN Outcome(TRUE, NoErr, <<>>)
                    ELSE process(args))
        /\ UNCHANGED <<commands, unnamedCmd, globalOptions, nregs, aborted, req, queries>>

Next ==
    \/ \E c \in CommandCalls, order \in RangeOrders(DOMAIN commands) :
          RegisterCommand(c.handler, c.specs, order)
    \/ \E g \in GlobalCalls, order \in RangeOrders(DOMAIN commands) :
          RegisterGlobalOption(g.handler, g.specs[1], order)
    \/ \E args \in Args : Process(args)

Spec == Init /\ [][Next]_vars

\* ------------------------------------------------------------------ commands with options
\* the templates of a second set of registration calls: typed values, required
\* and optional options, optional values, comma lists and a repeatable option
O_n == <<"n",":","<","i","n","t","-","v",">">>
O_c == <<"c">>
O_z == <<"-","z">>
O_b == <<"-","b">>
O_d == <<"d">>
O_r == <<"-","r"," ","<","s","t","r","i","n","g","-","a",">"," ","[","<","s","t","r","i","n","g","-","e",">","]">>
O_o == <<"[","-","o","]">>
O_m == <<"m">>
O_t == <<"*","[","-","t",":","<","i","n","t","-","n",">","]">>
O_p == <<"[","-","p",":","<","i","n","t","-","u",">","]">>
O_k == <<"k"," ","[","<","i","n","t","-","u",">","]">>
O_pq == <<"t"," ","<","s","t","r","i","n","g","-","p",">",",","<","s","t","r","i","n","g","-","q",">",",","<","s","t","r","i","n","g","-","s",">">>
O_pi == <<"u"," ","<","s","t","r","i","n","g","-","p",">",",","<","i","n","t","-","q",">">>
O_xy == <<"[","-","c",":","<","i","n","t","-","x",">",",","<","i","n","t","-","y",">","]">>
O_w == <<"-","w",":","<","i","n","t","-","v",">">>

\* the RegisterCommand calls of the second set
OptionCommandCalls ==
    { [handler |-> 2, specs |-> <<T_a>>],
      [handler |-> 1, specs |-> <<O_n>>],
      [handler |-> 1, specs |-> <<O_c, O_z, O_b>>],
      [handler |-> 1, specs |-> <<O_d, O_r, O_o>>],
      [handler |-> 1, specs |-> <<O_m, O_t, O_o, O_p, O_xy>>],
      [handler |-> 1, specs |-> <<O_k>>],
      [handler |-> 1, specs |-> <<O_pq>>],
      [handler |-> 1, specs |-> <<O_pi>>] }

\* the RegisterGlobalOption calls of the second set
OptionGlobalCalls ==
    { [handler |-> 1, specs |-> <<T_g>>],
      [handler |-> 1, specs |-> <<O_w>>] }

\* the argument lists of the Process calls of the second set
OptionArgs ==
    { <<>>,
      << <<"a">> >>,
      << <<"z">> >>,
      << <<"-","g">>, <<"a">> >>,
      << <<"-","w",":","x">>, <<"a">> >>,
      << <<"-","w",":","1">>, <<"a">> >>,
      << <<"n",":","5">> >>,
      << <<"n",":","x">> >>,
      << <<"n">> >>,
      << <<"c">> >>,
      << <<"c">>, <<"-","z">> >>,
      << <<"c">>, <<"-","b">>, <<"-","z">> >>,
      << <<"c">>, <<"-","z">>, <<"-","b">> >>,
      << <<"c">>, <<"-","y">> >>,
      << <<"d">> >>,
      << <<"d">>, <<"-","r">>, <<"q">> >>,
      << <<"d">>, <<"-","r">>, <<"q">>, <<"s">> >>,
      << <<"d">>, <<"-","r">>, <<"q">>, <<"-","o">> >>,
      << <<"m">> >>,
      << <<"m">>, <<"-","t",":","7">> >>,
      << <<"m">>, <<"-","t",":","x">> >>,
      << <<"m">>, <<"-","t",":","7">>, <<"-","t",":","1","2">> >>,
      << <<"m">>, <<"-","t",":","1","2">>, <<"-","o">>, <<"-","t",":","7">>, <<"-","t",":","1","2">> >>,
      << <<"m">>, <<"-","p",":","7">> >>,
      << <<"m">>, <<"-","p",":","x">> >>,
      << <<"m">>, <<"-","o",":","q">> >>,
      << <<"k">> >>,
      << <<"k">>, <<"5">> >>,
      << <<"t">>, <<"f","i","r","s","t">> >>,
<< <<"t">>, <<"a",",","b">> >>,
      << <<"t">>, <<"a",",","b",",","c">> >>,
      << <<"u">>, <<"x">> >>,
      << <<"u">>, <<"7">> >>,
      << <<"u">>, <<"x",",","7">> >>,
      << <<"m">>, <<"-","c",":","3">> >>,
      << <<"m">>, <<"-","c",":","3",",","4">> >> }

NextOptions ==
    \/ \E c \in OptionCommandCalls, order \in RangeOrders(DOMAIN commands) :
          RegisterCommand(c.handler, c.specs, order)
    \/ \E g \in OptionGlobalCalls, order \in RangeOrders(DOMAIN commands) :
          RegisterGlobalOption(g.handler, g.specs[1], order)
    \/ \E args \in OptionArgs : Process(args)

SpecOptions == Init /\ [][NextOptions]_vars

\* ------------------------------------------------------------------ commands with help
\* the templates of a third set of registration calls: keys in both letter
\* cases and help texts
H_run == <<"R","u","n","?","G","o"," ","f","a","s","t">>
H_add == <<"a","d","d","?","S","u","m">>
H_Q == <<"-","Q","?","Q","u","i","e","t">>
H_b == <<"b">>
H_unnamed == <<"~","?","D","o","e","s"," ","i","t">>
H_z == <<"-","z">>
H_Z == <<"-","Z">>
H_v == <<"-","v","?","L","o","u","d"," ","V","o","i","c","e">>

\* the RegisterCommand calls of the third set
HelpCommandCalls ==
    { [handler |-> 1, specs |-> <<H_run>>],
      [handler |-> 1, specs |-> <<H_add, H_Q>>],
      [handler |-> 2, specs |-> <<H_b>>],
      [handler |-> 1, specs |-> <<H_unnamed>>] }

\* the RegisterGlobalOption calls of the third set
HelpGlobalCalls ==
    { [handler |-> 1, specs |-> <<H_z>>],
      [handler |-> 1, specs |-> <<H_Z>>],
      [handler |-> 1, specs |-> <<H_v>>] }

\* the argument lists of the Process calls of the third set
HelpArgs ==
    { <<>>,
      << <<"h","e","l","p">> >>,
      << <<"h","e","l","p">>, <<"z">> >>,
      << <<"-","-","h","e","l","p">>, <<"Z">> >>,
      << <<"h","e","l","p">>, <<"l","o","u","d">> >>,
      << <<"h","e","l","p">>, <<"L","O","U","D">> >>,
      << <<"h","e","l","p">>, <<"r","u","n">> >>,
      << <<"h","e","l","p">>, <<"R","U","N">> >>,
      << <<"h","e","l","p">>, <<"q">> >>,
      << <<"h","e","l","p">>, <<"s","u","m">> >>,
      << <<"h","e","l","p">>, <<" ","z"," ">> >>,
      << <<"z","?">> >>,
      << <<"-","?">> >>,
      << <<"R","u","n","?">> >>,
      << <<"h","e","l","p">>, <<"a">>, <<"b">> >>,
      << <<"b">> >>,
      << <<"R","u","n">> >>,
      << <<"a","d","d">>, <<"-","x">> >>,
      << <<"x">>, <<"a","d","d">> >>,
      << <<"x">> >> }

\* Help(err, appName, args) called with the error a Process call returned and
\* the arguments of that call; order is the order in which its ranges visit
\* cl.commands
Help(appName, order) ==
    /\ op = "Process"
    /\ ~panicked
    /\ printQueue = NoHelp
    /\ printQueue' = help(err, appName, argv, order)
    /\ UNCHANGED <<commands, unnamedCmd, globalOptions, nregs, aborted, op, req, panicked,
                   argv, err, calls, trip, procs, rendering>>

NextHelp ==
    \/ \E c \in HelpCommandCalls, order \in RangeOrders(DOMAIN commands) :
          RegisterCommand(c.handler, c.specs, order)
    \/ \E g \in HelpGlobalCalls, order \in RangeOrders(DOMAIN commands) :
          RegisterGlobalOption(g.handler, g.specs[1], order)
    \/ \E args \in HelpArgs : Process(args)
    \/ \E order \in RangeOrders(DOMAIN commands) : Help(AppName, order)

SpecHelp == Init /\ [][NextHelp]_vars

\* ------------------------------------------------------------------ templates and their text
\* the templates sent through the compiler and back
TripTemplates ==
    { T_unnamed, T_rest, T_a, T_a_v, T_b_v, T_c, T_x, T_x_v, T_x_c, T_d_a, T_bad, T_g,
      T_g_w, T_f, T_v, T_h_a, T_novalue,
      O_n, O_c, O_z, O_b, O_d, O_r, O_o, O_m, O_t, O_p, O_k, O_pq, O_pi, O_xy, O_w,
      H_run, H_add, H_Q, H_b, H_unnamed, H_z, H_Z, H_v }

\* a template is chosen, as a primary spec or as an option spec; no registry
\* call is made
InitString ==
    /\ commands = <<>>
    /\ unnamedCmd = <<>>
    /\ globalOptions = <<>>
    /\ nregs = 0
    /\ aborted = FALSE
    /\ op = "none"
    /\ req = [handler |-> 0, specs |-> <<>>]
    /\ panicked = FALSE
    /\ argv = <<>>
    /\ err = NoErr
    /\ calls = <<>>
    /\ printQueue = NoHelp
    /\ procs = <<>>
    /\ helpQueue = <<>>
    /\ Prn = defaultPrinter(0)
    /\ helpCalls = <<>>
    /\ trip \in {Trip("template", primaryArg, template, PanicSpec(""), <<>>, PanicSpec("")) :
                    primaryArg \in BOOLEAN, template \in TripTemplates}

\* newArgSpec(template, primaryArg)
Compile ==
    /\ trip.stage = "template"
    /\ trip' = [trip EXCEPT !.stage = "compiled",
                            !.as = newArgSpec(trip.template, trip.primaryArg)]
    /\ UNCHANGED <<commands, unnamedCmd, globalOptions, nregs, aborted, op, req, panicked,
                   argv, err, calls, printQueue, procs, rendering>>

\* as.String() on a spec that compiled
Serialize ==
    /\ trip.stage = "compiled"
    /\ trip.as.panic = ""
    /\ trip' = [trip EXCEPT !.stage = "text", !.text = String(trip.as)]
    /\ UNCHANGED <<commands, unnamedCmd, globalOptions, nregs, aborted, op, req, panicked,
                   argv, err, calls, printQueue, procs, rendering>>

\* newArgSpec(text, primaryArg) on the text of the spec
Reparse ==
    /\ trip.stage = "text"
    /\ trip' = [trip EXCEPT !.stage = "again",
                            !.again = newArgSpec(trip.text, trip.primaryArg)]
    /\ UNCHANGED <<commands, unnamedCmd, globalOptions, nregs, aborted, op, req, panicked,
                   argv, err, calls, printQueue, procs, rendering>>

NextString == Compile \/ Serialize \/ Reparse

SpecString == InitString /\ [][NextString]_vars

\* ------------------------------------------------------------------ concurrent Process calls
\* the most Process calls that run at the same time
MaxProcs == 2

\* the registration calls made before the Process calls start
ConcurrentCommandCalls ==
    { [handler |-> 1, specs |-> <<T_a_v, T_x>>],
      [handler |-> 1, specs |-> <<O_n>>] }

ConcurrentGlobalCalls ==
    { [handler |-> 1, specs |-> <<T_g>>],
      [handler |-> 2, specs |-> <<O_w>>] }

\* the argument lists of the concurrent Process calls
ConcurrentArgs ==
    { << <<"a",":","q">>, <<"-","x">> >>,
      << <<"-","g">>, <<"n",":","5">> >>,
      << <<"-","g">>, <<"-","w",":","1">>, <<"a",":","q">> >>,
      << <<"n",":","x">> >>,
      << <<"-","g">>, <<"a",":","r">> >> }

\* the fields of cl that Process reads
Registry == <<commands, unnamedCmd, globalOptions>>

\* one Process call on its way: its args, where it stands ("scan", "globals",
\* "handler" or "done"), its locals globalOptionsToRun and commandArgs, the
\* handler calls it has made, what it returns, and cl as it was when the call
\* started
Proc(args, pc, globalOptionsToRun, commandArgs, cs, out, cl) ==
    [args |-> args, pc |-> pc, globalOptionsToRun |-> globalOptionsToRun,
     commandArgs |-> commandArgs, calls |-> cs, out |-> out, cl |-> cl]

\* the global options a shared queue would hold: those the first call queued
queueOfFirst(p) == procs[1].globalOptionsToRun

\* globalOptionsToRun of the call p: a local of Process
queueOf(p) == procs[p].globalOptionsToRun

\* go cl.Process(args): a call starts on the registry as it stands; calls is the
\* log of the handler invocations of all the calls, in the order they happen
Go(args) ==
    /\ ~aborted
    /\ Len(procs) < MaxProcs
    /\ procs' = Append(procs, Proc(args, "scan", <<>>, <<>>, <<>>,
                                   Outcome(FALSE, NoErr, <<>>), Registry))
    /\ UNCHANGED <<commands, unnamedCmd, globalOptions, nregs, aborted, op, req, panicked,
                   argv, err, calls, printQueue, trip, rendering>>

\* Process of the call p, "Enforce minimum requirements" and "Extract all
\* global args"
ScanGlobals(p) ==
    LET scanned(scan) ==
            IF scan.panic \/ scan.err.type # "nil"
            THEN [procs[p] EXCEPT !.pc = "done",
                                  !.out = Outcome(scan.panic, scan.err, <<>>)]
            ELSE [procs[p] EXCEPT !.pc = "globals",
                                  !.globalOptionsToRun = runOrder(scan.globalOptionsToRun),
                                  !.commandArgs = scan.commandArgs]
    IN  /\ procs[p].pc = "scan"
        /\ procs' = [procs EXCEPT ![p] =
                        IF DOMAIN commands = {}
                        THEN [procs[p] EXCEPT !.pc = "done",
                                              !.out = Outcome(TRUE, NoErr, <<>>)]
                        ELSE scanned(globalScan(procs[p].args, 0, <<>>, <<>>))]
        /\ UNCHANGED <<commands, unnamedCmd, globalOptions, nregs, aborted, op, req, panicked,
                       argv, err, calls, printQueue, trip, rendering>>

\* Process of the call p, "Execute the global options": one turn of the loop
RunGlobal(p) ==
    LET ran(g, e, call) ==
            /\ procs' = [procs EXCEPT ![p] =
                            IF e.type # "nil"
                            THEN [procs[p] EXCEPT !.pc = "done",
                                                  !.calls = Append(procs[p].calls, call),
                                                  !.out = Outcome(FALSE, e,
                                                              Append(procs[p].calls, call))]
                            ELSE [procs[p] EXCEPT !.calls = Append(procs[p].calls, call),
                                                  !.globalOptionsToRun = Tail(queueOf(p))]]
            /\ calls' = Append(calls, call)
        turn(g) == ran(g, HandlerError(g.Option.Handler),
                       Call("global", g.Option.Handler, g.Option.argSpec.Key, g.Values))
    IN  /\ procs[p].pc = "globals"
        /\ queueOf(p) # <<>>
        /\ turn(Head(queueOf(p)))
        /\ UNCHANGED <<commands, unnamedCmd, globalOptions, nregs, aborted, op, req, panicked,
                       argv, err, printQueue, trip, rendering>>

\* Process of the call p from "Find the command to run" to the values of the
\* command: the call returns an error, or is about to invoke the handler
BindCommand(p) ==
    LET bound(out) ==
            [procs[p] EXCEPT !.pc = IF Len(out.calls) > Len(procs[p].calls)
                                    THEN "handler" ELSE "done",
                             !.out = out]
    IN  /\ procs[p].pc = "globals"
        /\ queueOf(p) = <<>>
        /\ procs' = [procs EXCEPT ![p] =
                        bound(runCommand(procs[p].commandArgs, procs[p].calls))]
        /\ UNCHANGED <<commands, unnamedCmd, globalOptions, nregs, aborted, op, req, panicked,
                       argv, err, calls, printQueue, trip, rendering>>

\* Process of the call p, "Execute the command"
RunCommand(p) ==
    /\ procs[p].pc = "handler"
    /\ procs' = [procs EXCEPT ![p] = [procs[p] EXCEPT !.pc = "done",
                                                      !.calls = procs[p].out.calls]]
    /\ calls' = Append(calls, procs[p].out.calls[Len(procs[p].out.calls)])
    /\ UNCHANGED <<commands, unnamedCmd, globalOptions, nregs, aborted, op, req, panicked,
                   argv, err, printQueue, trip, rendering>>

\* registration comes to an end when the first Process call starts
NextConcurrent ==
    \/ \E c \in ConcurrentCommandCalls, order \in RangeOrders(DOMAIN commands) :
          procs = <<>> /\ RegisterCommand(c.handler, c.specs, order)
    \/ \E g \in ConcurrentGlobalCalls, order \in RangeOrders(DOMAIN commands) :
          procs = <<>> /\ RegisterGlobalOption(g.handler, g.specs[1], order)
    \/ \E args \in ConcurrentArgs : Go(args)
    \/ \E p \in DOMAIN procs : ScanGlobals(p)
    \/ \E p \in DOMAIN procs : RunGlobal(p)
    \/ \E p \in DOMAIN procs : BindCommand(p)
    \/ \E p \in DOMAIN procs : RunCommand(p)

SpecConcurrent == Init /\ [][NextConcurrent]_vars

\* ------------------------------------------------------------------ commands with value lists
\* the templates of a third set of registration calls: several space-delimited
\* values, a trailing multi value, a repeatable option with an optional value
B_s == <<"s"," ","<","s","t","r","i","n","g","-","a",">"," ","*","<","s","t","r","i","n","g","-","r",">">>
B_f == <<"f"," ","<","s","t","r","i","n","g","-","a",">"," ","<","s","t","r","i","n","g","-","b",">"," ","[","<","s","t","r","i","n","g","-","c",">","]">>
B_m == <<"m">>
B_u == <<"*","[","-","u",":","[","<","i","n","t","-","k",">","]","]">>
B_r == <<"[","-","r"," ","<","s","t","r","i","n","g","-","a",">"," ","<","s","t","r","i","n","g","-","b",">","]">>
B_k == <<"k"," ","<","i","n","t","-","u",">">>
B_j == <<"j",":","<","s","t","r","i","n","g","-","p",">",",","<","s","t","r","i","n","g","-","q",">">>
B_l == <<"l"," ","*","<","i","n","t","-","r",">">>

\* the RegisterCommand calls of the third set
BindingCommandCalls ==
    { [handler |-> 1, specs |-> <<B_s>>],
      [handler |-> 1, specs |-> <<B_f>>],
      [handler |-> 1, specs |-> <<B_m, O_t, B_u, B_r>>],
      [handler |-> 1, specs |-> <<B_k>>],
      [handler |-> 1, specs |-> <<B_j>>],
      [handler |-> 1, specs |-> <<B_l>>] }

\* the argument lists of the Process calls of the third set
BindingArgs ==
    { <<>>,
      << <<"s">> >>,
      << <<"s">>, <<"x">> >>,
      << <<"s">>, <<"x">>, <<"y">> >>,
      << <<"s">>, <<"x">>, <<"y">>, <<"z">> >>,
      << <<"s">>, <<"x">>, <<"y">>, <<"z">>, <<"w">> >>,
      << <<"s">>, <<"x">>, <<"y">>, <<"z">>, <<"w">>, <<"v">> >>,
      << <<"s">>, <<"x">>, <<"y">>, <<"-","q">> >>,
      << <<"s",":","x">>, <<"y">>, <<"z">> >>,
      << <<"f">> >>,
      << <<"f">>, <<"x">> >>,
      << <<"f">>, <<"x">>, <<"y">> >>,
      << <<"f">>, <<"x">>, <<"y">>, <<"z">> >>,
      << <<"f">>, <<"x">>, <<"y">>, <<"z">>, <<"w">> >>,
      << <<"f">>, <<"x">>, <<"-","q">> >>,
      << <<"f">>, <<"-","q">> >>,
      << <<"f",":","x">>, <<"y">> >>,
      << <<"m">> >>,
      << <<"m">>, <<"-","t",":","1">> >>,
      << <<"m">>, <<"-","t",":","1">>, <<"-","t",":","2">> >>,
      << <<"m">>, <<"-","u">> >>,
      << <<"m">>, <<"-","u",":","5">> >>,
      << <<"m">>, <<"-","u">>, <<"-","u",":","5">> >>,
      << <<"m">>, <<"-","u",":","5">>, <<"-","u">> >>,
      << <<"m">>, <<"-","u",":","5">>, <<"-","u",":","6">> >>,
      << <<"m">>, <<"-","r">>, <<"x">>, <<"y">> >>,
      << <<"m">>, <<"-","r",":","q">>, <<"w">> >>,
      << <<"m">>, <<"-","r",":","q">>, <<"w">>, <<"z">> >>,
      << <<"m">>, <<"-","r">>, <<"x">> >>,
      << <<"m">>, <<"-","r",":","q">> >>,
      << <<"m">>, <<"-","r">> >>,
      << <<"k">>, <<"5">> >>,
      << <<"k",":","5">> >>,
      << <<"k",":","5">>, <<"7">> >>,
      << <<"k">> >>,
      << <<"k",":">> >>,
      << <<"k">>, <<"x">> >>,
      << <<"k">>, <<"-","5">> >>,
      << <<"j",":","x",",","y">> >>,
      << <<"j",":","x">> >>,
      << <<"j">> >>,
      << <<"j">>, <<"x">> >>,
      << <<"j",":","x",",","y",",","z">> >>,
      << <<"l">>, <<"1">>, <<"2">>, <<"3">> >>,
      << <<"l">>, <<"1">> >>,
      << <<"l">> >>,
      << <<"l",":","1">>, <<"2">> >>,
      << <<"l">>, <<"1">>, <<"x">> >>,
      << <<"l">>, <<"1">>, <<"-","2">> >> }

NextBinding ==
    \/ \E c \in BindingCommandCalls, order \in RangeOrders(DOMAIN commands) :
          RegisterCommand(c.handler, c.specs, order)
    \/ \E args \in BindingArgs : Process(args)

SpecBinding == Init /\ [][NextBinding]_vars

\* ------------------------------------------------------------------ help rendering
maxLineWidth == 120

maxRiver == 30

riverSpaces == 2

\* strings.Repeat(s, count)
Repeat(s, count) == [i \in 1..(count * Len(s)) |-> s[((i - 1) % Len(s)) + 1]]

\* helpLine{str1, str2, indent, cols}
helpLine(str1, str2, indent, cols) ==
    [str1 |-> str1, str2 |-> str2, indent |-> indent, cols |-> cols]

\* cl.helpPrintln(text), on the queue
helpPrintln(queue, text) == Append(queue, helpLine(text, <<>>, 0, 1))

\* cl.helpPrintCols(indent, argText, description), on the queue
helpPrintCols(queue, indent, argText, description) ==
    IF Len(argText) = 0
    THEN IF Len(description) > 0
         THEN Append(queue, helpLine(Repeat(<<" ", " ">>, indent) \o description, <<>>, 0, 2))
         ELSE queue
    ELSE Append(queue, helpLine(argText, description, indent, 2))

\* the token of a queued line as helpRender prints it
indentedToken(queued) == Repeat(<<" ", " ">>, queued.indent) \o queued.str1

RECURSIVE riverLoop(_, _, _)
\* the first loop of helpRender from queue position i: the widest token plus
\* riverSpaces, and maxRiver as soon as one line passes it
riverLoop(queue, i, riverWidth) ==
    IF i > Len(queue) THEN riverWidth
    ELSE LET queued == queue[i]
             width == Len(indentedToken(queued))
         IN  IF queued.cols > 1 /\ width > 0
             THEN IF width + riverSpaces > maxRiver THEN maxRiver
                  ELSE IF width + riverSpaces > riverWidth
                       THEN riverLoop(queue, i + 1, width + riverSpaces)
                       ELSE riverLoop(queue, i + 1, riverWidth)
             ELSE riverLoop(queue, i + 1, riverWidth)

RECURSIVE lastCutPoint(_, _, _, _)
\* the cut point search of indentedPrint: the last space of thisLine whose
\* position plus column is at most wrap, looking after cutPoint; -1 for none
lastCutPoint(thisLine, column, wrap, cutPoint) ==
    LET nextCutPoint == indexOf(thisLine, " ", cutPoint + 1)
    IN  IF nextCutPoint < 0 \/ nextCutPoint + column > wrap THEN cutPoint
        ELSE lastCutPoint(thisLine, column, wrap, nextCutPoint)

RECURSIVE wrapLoop(_, _, _, _, _, _)
\* the loop of indentedPrint over what is left of one line of the text; gives
\* the printer, the column and nextIndent it ends with
wrapLoop(dp, fullLine, column, nextIndent, indent, wrap) ==
    IF Len(fullLine) = 0 THEN [dp |-> dp, column |-> column, nextIndent |-> nextIndent]
    ELSE LET begun == IF column = 0 THEN BeginPrint(dp, <<>>) ELSE dp
             margin == IF column < indent THEN Repeat(<<" ">>, indent - column) ELSE nextIndent
             start == IF column < indent THEN indent ELSE column
             end == start + Len(fullLine)
             cutPoint == IF end > wrap THEN lastCutPoint(fullLine, start, wrap, -1) ELSE -1
             thisLine == IF cutPoint > 0 THEN Slice(fullLine, 0, cutPoint) ELSE fullLine
             ended == EndPrint(ContinuePrint(begun, margin), TrimSpace(thisLine))
         IN  wrapLoop(ended, TrimSpace(From(fullLine, Len(thisLine))), 0, <<>>, indent, wrap)

RECURSIVE linesLoop(_, _, _, _, _, _, _)
\* the loop of indentedPrint over the lines of the text, from line i
linesLoop(dp, lines, i, column, nextIndent, indent, wrap) ==
    IF i > Len(lines) THEN dp
    ELSE IF Len(TrimSpace(lines[i])) = 0
         THEN IF column > 0
              THEN linesLoop(EndPrint(dp, <<>>), lines, i + 1, 0, nextIndent, indent, wrap)
              ELSE linesLoop(Println(dp, <<>>), lines, i + 1, column, nextIndent, indent, wrap)
         ELSE LET done == wrapLoop(dp, lines[i], column, nextIndent, indent, wrap)
              IN  linesLoop(done.dp, lines, i + 1, done.column, done.nextIndent, indent, wrap)

\* indentedPrint leaving the line of a token open when the token reaches the
\* column of the descriptions
indentedPrintTokenLeftOpen(dp, arg, indent, wrap, text) ==
    LET lines == Split(text, "\n")
    IN  IF Len(arg) > 0
        THEN LET begun == BeginPrint(dp, arg)
             IN  IF Len(text) = 0 THEN EndPrint(begun, <<>>)
                 ELSE IF Len(arg) >= indent
                      THEN linesLoop(begun, lines, 1, 0, <<>>, indent, wrap)
                      ELSE linesLoop(begun, lines, 1, Len(arg), <<>>, indent, wrap)
        ELSE linesLoop(dp, lines, 1, 0, <<>>, indent, wrap)

\* indentedPrint(arg, indent, wrap, text), on the printer
indentedPrint(dp, arg, indent, wrap, text) ==
    LET lines == Split(text, "\n")
    IN  IF Len(arg) > 0
        THEN LET begun == BeginPrint(dp, arg)
             IN  IF Len(text) = 0 THEN EndPrint(begun, <<>>)
                 ELSE IF Len(arg) >= indent
                      THEN linesLoop(EndPrint(begun, <<>>), lines, 1, 0, <<>>, indent, wrap)
                      ELSE linesLoop(begun, lines, 1, Len(arg), <<>>, indent, wrap)
        ELSE linesLoop(dp, lines, 1, 0, <<>>, indent, wrap)

RECURSIVE printLoop(_, _, _, _, _)
\* the second loop of helpRender from queue position i; marks holds, for
\* every line printed so far, how many lines the printer had written after it
printLoop(dp, queue, i, riverWidth, marks) ==
    IF i > Len(queue) THEN [dp |-> dp, marks |-> marks]
    ELSE LET queued == queue[i]
             printed == IF queued.cols = 1 THEN Println(dp, indentedToken(queued))
                        ELSE indentedPrint(dp, indentedToken(queued), riverWidth,
                                           maxLineWidth, queued.str2)
         IN  printLoop(printed, queue, i + 1, riverWidth, Append(marks, Len(printed.out)))

\* helpRender with the descriptions at column maxRiver whatever the tokens
helpRenderAtMaxRiver(queue, dp) == printLoop(dp, queue, 1, maxRiver, <<>>)

\* cl.helpRender(), on the queue and the printer
helpRender(queue, dp) == printLoop(dp, queue, 1, riverLoop(queue, 1, 0), <<>>)

\* ------------------------------------------------------------------ help lines
\* how many lines a help call queues
MaxQueue == 2

RECURSIVE Sentence(_, _)
\* count times the word, with one space between
Sentence(word, count) ==
    IF count <= 1 THEN word ELSE word \o <<" ">> \o Sentence(word, count - 1)

\* a description that is empty, one that fits, one that wraps several times,
\* one of several lines with a blank line and runs of spaces, one whose first
\* word is wider than the line, and one of spaces only
D_none == <<>>

D_short == <<"S","u","m">>

D_wrap == Sentence(<<"w","o","r","d">>, 60)

D_lines == <<"o","n","e">> \o <<"\n">> \o <<" ","t","w","o"," "," ","t","h","r","e","e">> \o <<"\n", "\n">> \o <<"f","o","u","r"," ">> \o Sentence(<<"w","o","r","d">>, 30)

D_wide == Repeat(<<"w">>, 118) \o <<" ","b"," ","c">>

D_blank == <<" ">>

Descriptions == {D_none, D_short, D_wrap, D_lines, D_wide, D_blank}

\* tokens of 1, 15, 28, 29 and 35 columns; the callers of helpPrintCols pass
\* the text of a spec, which is never empty
Tokens == {<<"a">>, <<"-","l","o","n","g","o","p","t","i","o","n","n","a","m","e">>, Repeat(<<"t">>, 28), Repeat(<<"t">>, 29),
           Repeat(<<"t">>, 35)}

Indents == {0, 1}

Headings == {<<>>, <<"A","l","l"," ","C","o","m","m","a","n","d","s",":">>}

\* the help call that has rendered: the queue it rendered, the pause count
\* the printer had before, and the marks of its lines in the printer's output
HelpCall(queue, prior, marks) == [queue |-> queue, prior |-> prior, marks |-> marks]

PauseCounts == {0, 1}

InitRender ==
    /\ commands = <<>>
    /\ unnamedCmd = <<>>
    /\ globalOptions = <<>>
    /\ nregs = 0
    /\ aborted = FALSE
    /\ op = "none"
    /\ req = [handler |-> 0, specs |-> <<>>]
    /\ panicked = FALSE
    /\ argv = <<>>
    /\ err = NoErr
    /\ calls = <<>>
    /\ printQueue = NoHelp
    /\ trip = NoTrip
    /\ procs = <<>>
    /\ helpQueue = <<>>
    /\ Prn \in {defaultPrinter(pauseCount) : pauseCount \in PauseCounts}
    /\ helpCalls = <<>>

unrendered ==
    <<commands, unnamedCmd, globalOptions, nregs, aborted, op, req, panicked,
      argv, err, calls, printQueue, trip, procs>>

\* cl.helpPrintln(text)
HelpPrintln(text) ==
    /\ helpCalls = <<>>
    /\ Len(helpQueue) < MaxQueue
    /\ helpQueue' = helpPrintln(helpQueue, text)
    /\ UNCHANGED <<unrendered, Prn, helpCalls>>

\* cl.helpPrintCols(indent, argText, description)
HelpPrintCols(indent, argText, description) ==
    /\ helpCalls = <<>>
    /\ Len(helpQueue) < MaxQueue
    /\ helpQueue' = helpPrintCols(helpQueue, indent, argText, description)
    /\ UNCHANGED <<unrendered, Prn, helpCalls>>

\* cl.helpRender(); the queue is reset when the printing has not panicked
HelpRender ==
    /\ helpCalls = <<>>
    /\ LET Rendered(done) ==
               /\ Prn' = done.dp
               /\ helpQueue' = IF done.dp.panic = "" THEN <<>> ELSE helpQueue
               /\ helpCalls' = <<HelpCall(helpQueue, Prn.pauseCount, done.marks)>>
       IN  Rendered(helpRender(helpQueue, Prn))
    /\ UNCHANGED unrendered

NextRender ==
    \/ \E text \in Headings : HelpPrintln(text)
    \/ \E indent \in Indents, argText \in Tokens, description \in Descriptions :
          HelpPrintCols(indent, argText, description)
    \/ HelpRender

SpecRender == InitRender /\ [][NextRender]_vars

\* ------------------------------------------------------------------ concurrent help calls
\* how many help calls run at the same time
MaxHelpCalls == 2

\* a line a help call queues: with helpPrintln, or with helpPrintCols
Heading(text) == [cols |-> 1, indent |-> 0, argText |-> text, description |-> <<>>]

Columns(indent, argText, description) ==
    [cols |-> 2, indent |-> indent, argText |-> argText, description |-> description]

\* the lines of the help calls: a usage line and a command, a global option,
\* a heading and a command with a long token
HelpContents ==
    { <<Heading(<<"U","s","a","g","e",":"," ","a","p","p"," ","a">>), Columns(1, <<"a">>, <<"S","u","m">>)>>,
      <<Columns(0, <<"-","v">>, <<"V","e","r","b","o","s","e">>)>>,
      <<Heading(<<"C","o","m","m","a","n","d","s",":">>), Columns(1, <<"-","l","o","n","g","o","p","t","i","o","n","n","a","m","e">>, <<"L","o","n","g">>)>> }

\* the queue after the call queued the line on the queue it loaded
appended(queue, line) ==
    IF line.cols = 1 THEN helpPrintln(queue, line.argText)
    ELSE helpPrintCols(queue, line.indent, line.argText, line.description)

\* a help call on its way: the lines it queues, the position of the next one,
\* where it is, the cl.printQueue it loaded for the append, the riverWidth it
\* computed, the lines it printed, and whether another call was in progress
\* at some time of it
Helper(content, at, pc, loaded, riverWidth, emitted, overlapped) ==
    [content |-> content, at |-> at, pc |-> pc, loaded |-> loaded,
     riverWidth |-> riverWidth, emitted |-> emitted, overlapped |-> overlapped]

\* some call is between its start and its return
InProgress == \E c \in 1..Len(helpCalls) : helpCalls[c].pc # "done"

\* a help call starts (Help, PrintCommands or PrintCommand)
StartHelp(content) ==
    /\ Len(helpCalls) < MaxHelpCalls
    /\ helpCalls' = Append([c \in 1..Len(helpCalls) |->
                               [helpCalls[c] EXCEPT !.overlapped = @ \/ helpCalls[c].pc # "done"]],
                           Helper(content, 1, "load", <<>>, 0, <<>>, InProgress))
    /\ UNCHANGED <<unrendered, helpQueue, Prn>>

\* append(cl.printQueue, ...): the call reads cl.printQueue
LoadQueue(c) ==
    /\ helpCalls[c].pc = "load"
    /\ helpCalls' = [helpCalls EXCEPT ![c].pc = "store", ![c].loaded = helpQueue]
    /\ UNCHANGED <<unrendered, helpQueue, Prn>>

\* cl.printQueue = append(...): the call writes cl.printQueue
StoreQueue(c) ==
    /\ helpCalls[c].pc = "store"
    /\ helpQueue' = appended(helpCalls[c].loaded, helpCalls[c].content[helpCalls[c].at])
    /\ helpCalls' = [helpCalls EXCEPT
          ![c].at = helpCalls[c].at + 1,
          ![c].pc = IF helpCalls[c].at < Len(helpCalls[c].content) THEN "load" ELSE "river"]
    /\ UNCHANGED <<unrendered, Prn>>

\* helpRender: the first loop over cl.printQueue
MeasureRiver(c) ==
    /\ helpCalls[c].pc = "river"
    /\ helpCalls' = [helpCalls EXCEPT ![c].pc = "print",
                                      ![c].riverWidth = riverLoop(helpQueue, 1, 0)]
    /\ UNCHANGED <<unrendered, helpQueue, Prn>>

\* helpRender: the second loop over cl.printQueue, its printer calls made
\* with no printer call of another help call in between
PrintQueue(c) ==
    /\ helpCalls[c].pc = "print"
    /\ LET Printed(done) ==
               /\ Prn' = done.dp
               /\ helpCalls' = [helpCalls EXCEPT
                      ![c].pc = "reset",
                      ![c].emitted = SubSeq(done.dp.out, Len(Prn.out) + 1, Len(done.dp.out))]
       IN  Printed(printLoop(Prn, helpQueue, 1, helpCalls[c].riverWidth, <<>>))
    /\ UNCHANGED <<unrendered, helpQueue>>

\* helpRender: cl.printQueue = []helpLine{}
ResetQueue(c) ==
    /\ helpCalls[c].pc = "reset"
    /\ helpQueue' = <<>>
    /\ helpCalls' = [helpCalls EXCEPT ![c].pc = "done"]
    /\ UNCHANGED <<unrendered, Prn>>

NextRenderConcurrent ==
    \/ \E content \in HelpContents : StartHelp(content)
    \/ \E c \in 1..Len(helpCalls) : LoadQueue(c)
    \/ \E c \in 1..Len(helpCalls) : StoreQueue(c)
    \/ \E c \in 1..Len(helpCalls) : MeasureRiver(c)
    \/ \E c \in 1..Len(helpCalls) : PrintQueue(c)
    \/ \E c \in 1..Len(helpCalls) : ResetQueue(c)

SpecRenderConcurrent == InitRender /\ [][NextRenderConcurrent]_vars

\* ------------------------------------------------------------------ properties
\* the calls of one kind among cs
CallsOf(kind, cs) == SelectSeq(cs, LAMBDA c : c.kind = kind)

ProcessReturned == op = "Process" /\ ~panicked

\* the one registered command is the unnamed one
SoleUnnamed ==
    /\ Cardinality(DOMAIN commands) = 1
    /\ \A k \in DOMAIN commands : commands[k].PrimaryArgSpec.Unnamed

\* C1: unnamed-invocation mode is on exactly when one command is registered and
\* it is the unnamed one, the unnamed command then being that command; and a
\* Process call with no arguments on a registry of two or more commands fails
\* with "A command is required" and invokes no handler.
C1_UnnamedModeIffSoleUnnamed ==
    /\ (unnamedCmd # <<>>) <=> SoleUnnamed
    /\ unnamedCmd # <<>> => unnamedCmd[1] = commands[<<"~">>]
    /\ (ProcessReturned /\ argv = <<>> /\ Cardinality(DOMAIN commands) >= 2)
          => (err = NewCommandLineError("A command is required", <<>>) /\ calls = <<>>)

\* C1 witness: an unnamed command, a second command registered after it, and
\* then a Process call with no arguments, which failed
C1_Witness ==
    /\ ProcessReturned /\ argv = <<>>
    /\ <<"~">> \in DOMAIN commands /\ Cardinality(DOMAIN commands) = 2
    /\ unnamedCmd = <<>>
    /\ err.msg = "A command is required"

\* Process's scan of argv for global options
GlobalScanOfArgv == globalScan(argv, 0, <<>>, <<>>)

\* the arguments of argv that remain once the global options and the values
\* bound to them are removed
CommandArgs == GlobalScanOfArgv.commandArgs

\* the global options of argv were all bound, and their handlers returned nil
GlobalsPassed ==
    LET scan == GlobalScanOfArgv
    IN  /\ ~scan.panic
        /\ scan.err = NoErr
        /\ \A i \in 1..Len(scan.globalOptionsToRun) :
              HandlerError(scan.globalOptionsToRun[i].Option.Handler) = NoErr

C3_UnnamedCatchAll ==
    (/\ ProcessReturned /\ GlobalsPassed
     /\ <<"~">> \in DOMAIN commands
     /\ Cardinality(DOMAIN commands) >= 2
     /\ CommandArgs # <<>>) =>
        LET rest == CommandArgs
            switch == splitColon(rest[1]).switch
            cmdCalls == CallsOf("command", calls)
            unnamed == commands[<<"~">>]
        IN  IF switch \in DOMAIN commands
            THEN \A i \in 1..Len(cmdCalls) : cmdCalls[i].key = switch
            ELSE /\ err.msg # "Unrecognized command: "
                 /\ (/\ unnamed.PrimaryArgSpec.ValueSpecs # <<>>
                     /\ \A i \in 1..Len(rest) : ~isDash(rest[i]))
                       => /\ Len(cmdCalls) = 1
                          /\ cmdCalls[1].key = <<"~">>
                          /\ LET r == cmdCalls[1].values[<<"r">>]
                             IN  r.t = "list" /\ [i \in 1..Len(r.l) |-> r.l[i].s] = rest

\* whether no element of the sequence seq occurs in it twice
NoRepeat(seq) == \A i, j \in DOMAIN seq : seq[i] = seq[j] => i = j

RECURSIVE NamesOfCommands(_)
\* the key, option keys and value names of the commands under keys, in a row
NamesOfCommands(keys) ==
    IF Len(keys) = 0 THEN <<>>
    ELSE <<Head(keys)>> \o commandNames(commands[Head(keys)])
         \o NamesOfCommands(Tail(keys))

RECURSIVE NamesOfGlobals(_)
\* the key and value names of the global options under keys, in a row
NamesOfGlobals(keys) ==
    IF Len(keys) = 0 THEN <<>>
    ELSE <<Head(keys)>> \o valueNames(globalOptions[Head(keys)].argSpec)
         \o NamesOfGlobals(Tail(keys))

\* C4 as stated: after successful registrations only, no two of the command
\* keys, global option keys, option keys and value names of the whole registry
\* are equal.
C4_GloballyUnique ==
    ~aborted => NoRepeat(NamesOfGlobals(sortedKeys(DOMAIN globalOptions))
                         \o NamesOfCommands(sortedKeys(DOMAIN commands)))

\* C4, amended: after successful registrations only, no command key is a global
\* option key, and within each command its key, its option keys and its value
\* names are pairwise distinct and distinct from every global option key.
\* (Names may repeat from one command to another, and the value names of global
\* options are not checked.)
C4_ScopedUnique ==
    ~aborted =>
        /\ DOMAIN commands \cap DOMAIN globalOptions = {}
        /\ \A k \in DOMAIN commands :
              NoRepeat(sortedKeys(DOMAIN globalOptions) \o <<k>>
                       \o commandNames(commands[k]))

\* C4 witness: MaxRegs registrations, all successful, after which a global
\* option is registered and two commands hold the same value name
C4_Witness ==
    /\ ~aborted
    /\ nregs = MaxRegs
    /\ DOMAIN globalOptions # {}
    /\ \E k1, k2 \in DOMAIN commands :
          /\ k1 # k2
          /\ valueNames(commands[k1].PrimaryArgSpec) # <<>>
          /\ valueNames(commands[k1].PrimaryArgSpec)
                = valueNames(commands[k2].PrimaryArgSpec)

\* the templates of the last registration call, compiled one by one
RequestSpecs == [i \in 1..Len(req.specs) |-> newArgSpec(req.specs[i], i = 1)]

RECURSIVE NamesOfSpecs(_)
\* the keys and value names of the compiled templates specs, in a row
NamesOfSpecs(specs) ==
    IF Len(specs) = 0 THEN <<>>
    ELSE <<Head(specs).Key>> \o valueNames(Head(specs)) \o NamesOfSpecs(Tail(specs))

\* C5: a RegisterCommand call with well-formed templates aborts when its
\* primary key, option keys and value names are not pairwise distinct, or when
\* one of them is a global option key.
C5_ScopedAbort ==
    (/\ op = "RegisterCommand"
     /\ Len(req.specs) > 0
     /\ \A i \in 1..Len(req.specs) : RequestSpecs[i].panic = "") =>
        LET names == NamesOfSpecs(RequestSpecs)
        IN  (\/ ~NoRepeat(names)
             \/ \E i \in 1..Len(names) : names[i] \in DOMAIN globalOptions)
                => panicked

\* C6: a registration call that aborts leaves the commands, the unnamed
\* command and the global options as they were before the call.
C6_AbortLeavesRegistry ==
    [][(op' \in {"RegisterCommand", "RegisterGlobalOption"} /\ panicked')
          => UNCHANGED registry]_vars

\* C7: a RegisterGlobalOption call whose well-formed template has the key of a
\* registered global option aborts, and the registered option stays as it was.
C7_DuplicateGlobalAborts ==
    [][(/\ op' = "RegisterGlobalOption"
        /\ newArgSpec(req'.specs[1], FALSE).panic = ""
        /\ newArgSpec(req'.specs[1], FALSE).Key \in DOMAIN globalOptions)
          => /\ panicked'
             /\ globalOptions'[newArgSpec(req'.specs[1], FALSE).Key]
                   = globalOptions[newArgSpec(req'.specs[1], FALSE).Key]]_vars

\* the positions of argv whose argument has the key of a global option
GlobalTokens == {i \in 1..Len(argv) : isGlobalArg(argv[i])}

\* no global option takes its values from the arguments that follow it
ColonGlobals ==
    \A k \in DOMAIN globalOptions : globalOptions[k].argSpec.ValuesDelim # " "

GlobalOccurrences ==
    LET tokens == SelectSeq(argv, isGlobalArg)
    IN  [i \in 1..Len(tokens) |-> splitColon(tokens[i]).switch]

\* the keys of the global option handlers Process invoked, in order
GlobalsInvoked ==
    LET cs == CallsOf("global", calls)
    IN  [i \in 1..Len(cs) |-> cs[i].key]

\* Process went on to resolve the command
CommandResolved ==
    \/ CallsOf("command", calls) # <<>>
    \/ err.msg \in {"A command is required", "Unrecognized command: ",
                    "Unrecognized command argument: ", "Arguments required: %s"}

\* C9: the global option handlers Process invokes are those of the global
\* options occurring in argv, once per occurrence and in the order of the
\* occurrences: the invoked keys are always the first so many occurrences
\* (none that does not occur, whatever the order of registration), they are all
\* the occurrences once Process resolves the command, and every one of them is
\* invoked before the command handler.
C9_GlobalsInArgvOrder ==
    (ProcessReturned /\ ColonGlobals) =>
        /\ Len(GlobalsInvoked) <= Len(GlobalOccurrences)
        /\ GlobalsInvoked = SubSeq(GlobalOccurrences, 1, Len(GlobalsInvoked))
        /\ \A i \in 1..Len(calls) :
              calls[i].kind = "global"
                 => calls[i].handler = globalOptions[calls[i].key].Handler
        /\ CommandResolved => GlobalsInvoked = GlobalOccurrences
        /\ \A i \in 1..Len(calls) : calls[i].kind = "command" => i = Len(calls)

\* C9 witness: the option registered last comes first in argv and ran first;
\* the command handler ran after both
C9_Witness ==
    /\ ProcessReturned
    /\ argv = << <<"-","x">>, <<"-","g">>, <<"a">> >>
    /\ req.specs = <<T_x>>
    /\ GlobalsInvoked = << <<"-","x">>, <<"-","g">> >>
    /\ Len(calls) = 3
    /\ calls[3].kind = "command"

\* C10: a handler that returns an error is the last handler Process invokes,
\* and Process returns that handler's error; this holds for the handler of a
\* global option as for the command handler, and when the command handler
\* runs Process returns what it returns.
C10_HandlerErrorEndsProcess ==
    ProcessReturned =>
        \A i \in 1..Len(calls) :
            /\ HandlerError(calls[i].handler) # NoErr
                  => (i = Len(calls) /\ err = HandlerError(calls[i].handler))
            /\ calls[i].kind = "command" => err = HandlerError(calls[i].handler)

\* C10 witness: the first of two global options failed; neither the second
\* nor the command was invoked
C10_Witness ==
    /\ ProcessReturned
    /\ argv = << <<"-","f">>, <<"-","g">>, <<"a">> >>
    /\ <<"-","g">> \in DOMAIN globalOptions
    /\ <<"a">> \in DOMAIN commands
    /\ Len(calls) = 1
    /\ calls[1].key = <<"-","f">>
    /\ err = HandlerError(calls[1].handler)
    /\ err # NoErr

\* the formats of the errors Process makes with NewCommandLineError
UsageMessages ==
    { "A command is required", "Unrecognized command: ",
      "Unrecognized command argument: ", "Unexpected command argument: %s",
      "Required value %s is missing", "Arguments required: %s" }

\* the errors the type provider returns for the text of an argument of argv
ConversionErrors ==
    { MakeValue(typeIndex, input).err :
        typeIndex \in {argTypeBool, argTypeInt},
        input \in UNION { {argv[i], splitColon(argv[i]).value} : i \in 1..Len(argv) } }
    \ {NoErr}

\* C11: an error Process returns is one of three kinds.  An error Process
\* raises itself for a usage problem (no command, unrecognized command,
\* unrecognized or unexpected command argument, missing required value, missing
\* required options) is a CommandLineError; an error of the type provider's
\* value conversion is returned as the provider made it and is no
\* CommandLineError; an error of a handler is returned as the handler made it,
\* the handler being the last one called, and is no CommandLineError.
C11_UsageErrorsAreCommandLineErrors ==
    ProcessReturned /\ err.type # "nil" =>
        \/ /\ err.msg \in UsageMessages
           /\ err.type = "CommandLineError"
           /\ err.handler = 0
        \/ /\ err \in ConversionErrors
           /\ err.type = "error"
           /\ err.msg \notin UsageMessages
        \/ /\ err.handler # 0
           /\ err.type = "error"
           /\ calls # <<>>
           /\ calls[Len(calls)].handler = err.handler
           /\ err = HandlerError(err.handler)

\* Process returned the conversion error of an option value of a command
C11_Witness ==
    /\ ProcessReturned
    /\ err \in ConversionErrors
    /\ argv = << <<"m">>, <<"-","p",":","x">> >>

\* the command Process selects for argv: the unnamed command in unnamed mode,
\* else the command named by the first remaining argument (<<>>: none)
SelectedCommand ==
    IF unnamedCmd # <<>> THEN unnamedCmd
    ELSE IF CommandArgs # <<>> /\ splitColon(CommandArgs[1]).switch \in DOMAIN commands
         THEN <<commands[splitColon(CommandArgs[1]).switch]>>
    ELSE <<>>

\* the keys of the non-optional options of cmd that no argument of argv names
MissingRequired(cmd) ==
    {k \in DOMAIN cmd.OptionSpecs.values :
        /\ ~cmd.OptionSpecs.values[k].Optional
        /\ \A i \in 1..Len(CommandArgs) : splitColon(CommandArgs[i]).switch # k}

\* the errors of binding the arguments to the primary spec and the options
BindingFailed ==
    \/ err.msg \in {"Unrecognized command argument: ", "Unexpected command argument: %s",
                    "Required value %s is missing"}
    \/ err \in ConversionErrors

\* whether seq lists exactly the strings of keys, each once, in ascending order
AscendingListOf(seq, keys) ==
    /\ {seq[i] : i \in 1..Len(seq)} = keys
    /\ \A i, j \in 1..Len(seq) : i < j => StrLess(seq[i], seq[j])

\* C12 as stated: when required options of the selected command were not
\* supplied, Process fails with a command-line error listing the missing keys in
\* the order in which the options were registered, and the command handler is
\* not invoked.
C12_MissingRequiredInRegistrationOrder ==
    (/\ ProcessReturned /\ GlobalsPassed
     /\ SelectedCommand # <<>>
     /\ MissingRequired(SelectedCommand[1]) # {}) =>
        LET cmd == SelectedCommand[1]
            missing == MissingRequired(cmd)
        IN  /\ CallsOf("command", calls) = <<>>
            /\ err.type = "CommandLineError" \/ BindingFailed
            /\ ~BindingFailed =>
                  err = NewCommandLineError("Arguments required: %s",
                            SelectSeq(cmd.OptionSpecs.order, LAMBDA k : k \in missing))

\* C12 amended: when required options of the selected command were not supplied
\* and binding the supplied arguments did not fail first, Process fails with the
\* command-line error "Arguments required" listing every missing required option
\* key once, in ascending byte order of the keys; the command handler is not
\* invoked in either case.
C12_MissingRequiredSorted ==
    (/\ ProcessReturned /\ GlobalsPassed
     /\ SelectedCommand # <<>>
     /\ MissingRequired(SelectedCommand[1]) # {}) =>
        LET missing == MissingRequired(SelectedCommand[1])
        IN  /\ CallsOf("command", calls) = <<>>
            /\ err.type = "CommandLineError" \/ BindingFailed
            /\ ~BindingFailed =>
                  /\ err.type = "CommandLineError"
                  /\ err.msg = "Arguments required: %s"
                  /\ AscendingListOf(err.arg, missing)

\* C12 witness: the command "c" with the required options "-z" and "-b",
\* registered in that order, was run without them and both were reported
C12_Witness ==
    /\ ProcessReturned
    /\ argv = << <<"c">> >>
    /\ SelectedCommand # <<>>
    /\ SelectedCommand[1].OptionSpecs.order = << <<"-","z">>, <<"-","b">> >>
    /\ err.msg = "Arguments required: %s"
    /\ Len(err.arg) = 2

\* whether an argument of argv names the option key k
OptionSupplied(k) == \E i \in 1..Len(CommandArgs) : splitColon(CommandArgs[i]).switch = k

\* whether values holds an entry for every optional value spec of as, the
\* entry being the default of the type when given is false
OptionalValuesPresent(as, values, given) ==
    \A i \in 1..Len(as.ValueSpecs) :
        as.ValueSpecs[i].Optional =>
            /\ as.ValueSpecs[i].OptionName \in DOMAIN values
            /\ ~given => values[as.ValueSpecs[i].OptionName] = as.ValueSpecs[i].DefaultValue

\* whether the Values of a call of the command cmd are complete: the primary
\* key is true, every optional option key is there, true when supplied and false
\* when not, and every optional value spec of the primary spec and of the
\* options has an entry; of the required options only when requiredToo
ValuesComplete(cmd, values, requiredToo) ==
    LET primary == cmd.PrimaryArgSpec
        options == cmd.OptionSpecs.values
    IN  /\ primary.Key \in DOMAIN values
        /\ values[primary.Key] = BoolVal(TRUE)
        /\ \A k \in DOMAIN options :
              options[k].Optional =>
                 /\ k \in DOMAIN values
                 /\ values[k] = BoolVal(OptionSupplied(k))
        /\ OptionalValuesPresent(primary, values, Len(CommandArgs) > 1)
        /\ \A k \in DOMAIN options :
              (options[k].Optional \/ requiredToo) =>
                 OptionalValuesPresent(options[k], values, OptionSupplied(k))

\* C13: whenever the command handler is invoked, its Values hold the primary key
\* mapped to true, every optional option key of the command (false if it was not
\* supplied, true if it was), and an entry for every optional value spec of the
\* primary spec and of every option, required or optional, that was not
\* supplied, holding the default of the value's type.
C13_ValuesComplete ==
    ProcessReturned =>
        \A i \in 1..Len(calls) :
            calls[i].kind = "command" =>
                ValuesComplete(SelectedCommand[1], calls[i].values, TRUE)

\* C13 without the optional values of the required options
C13_ValuesCompleteButRequired ==
    ProcessReturned =>
        \A i \in 1..Len(calls) :
            calls[i].kind = "command" =>
                ValuesComplete(SelectedCommand[1], calls[i].values, FALSE)

\* the primary spec and the option specs of the command cmd
SpecsOf(cmd) ==
    {cmd.PrimaryArgSpec} \cup {cmd.OptionSpecs.values[k] : k \in DOMAIN cmd.OptionSpecs.values}

\* the texts argv binds to the spec as: the colon value of an argument that
\* names it, or for a spec in the space form the bare argument after one
BoundText(as) ==
    LET named == {i \in 1..Len(CommandArgs) : splitColon(CommandArgs[i]).switch = as.Key}
    IN  {splitColon(CommandArgs[i]).value :
            i \in {j \in named : splitColon(CommandArgs[j]).hasValue}}
        \cup
        {CommandArgs[i + 1] :
            i \in {j \in named : /\ ~splitColon(CommandArgs[j]).hasValue
                                 /\ as.ValuesDelim = " "
                                 /\ j < Len(CommandArgs)
                                 /\ ~isDash(CommandArgs[j + 1])}}

\* what the value spec i of as is to receive from the comma-separated values
\* vals: its own value, or the last one when there are fewer values than specs
Received(as, i, vals) ==
    MakeValue(as.ValueSpecs[i].ArgIndex, vals[IF i <= Len(vals) THEN i ELSE Len(vals)])

\* C14: when a comma-delimited value spec list is given fewer comma-separated
\* values than it has value specs, and the values convert to the types of the
\* specs they go to, the supplied values are assigned by position and every
\* remaining value spec receives the last supplied value; Process reports no
\* error and the command handler is called with these values.
C14_CommaListReusesLastValue ==
    (ProcessReturned /\ GlobalsPassed /\ SelectedCommand # <<>>) =>
        \A as \in SpecsOf(SelectedCommand[1]) :
            \A input \in BoundText(as) :
                LET vals == Split(input, ",")
                    n == Len(as.ValueSpecs)
                IN  (/\ as.ValueDelim = ","
                     /\ BoundText(as) = {input}
                     /\ Len(vals) < n
                     /\ \A i \in 1..n : Received(as, i, vals).err = NoErr) =>
                        /\ err = HandlerError(SelectedCommand[1].Handler)
                        /\ Len(calls) > 0
                        /\ calls[Len(calls)].kind = "command"
                        /\ \A i \in 1..n :
                              calls[Len(calls)].values[as.ValueSpecs[i].OptionName]
                                 = Received(as, i, vals).value

\* C14 witness: "t <string-p>,<string-q>,<string-s>" was given "a,b", and the
\* handler received p = "a", q = "b" and s = "b"
C14_Witness ==
    /\ ProcessReturned
    /\ argv = << <<"t">>, <<"a", ",", "b">> >>
    /\ Len(calls) = 1
    /\ calls[1].values[<<"p">>] = StrVal(<<"a">>)
    /\ calls[1].values[<<"q">>] = StrVal(<<"b">>)
    /\ calls[1].values[<<"s">>] = StrVal(<<"b">>)

\* the arguments of argv that name the option as, in the order of argv
Occurrences(as) ==
    SelectSeq(CommandArgs, LAMBDA a : splitColon(a).switch = as.Key)

\* whether the arguments after the command are only occurrences of the option
\* as with a colon value and bare optional flags of the command cmd
OnlyOccurrencesAndFlags(cmd, as) ==
    /\ CommandArgs # <<>>
    /\ splitColon(CommandArgs[1]).switch = cmd.PrimaryArgSpec.Key
    /\ cmd.PrimaryArgSpec.ValueSpecs = <<>>
    /\ MissingRequired(cmd) = {}
    /\ \A i \in 2..Len(CommandArgs) :
          LET sc == splitColon(CommandArgs[i])
          IN  \/ sc.switch = as.Key /\ sc.hasValue
              \/ /\ sc.switch \in DOMAIN cmd.OptionSpecs.values
                 /\ cmd.OptionSpecs.values[sc.switch].Optional
                 /\ cmd.OptionSpecs.values[sc.switch].ValueSpecs = <<>>
                 /\ ~sc.hasValue

\* C15: for a repeatable optional option with one value ("*[-t:<type-name>]"),
\* k >= 1 occurrences whose values convert produce, under the value name, the
\* list of exactly the k converted values in the order of the occurrences in
\* argv, and zero occurrences produce no error: in both cases the command
\* handler is called and Process returns what it returned.
C15_RepeatableOptionList ==
    (ProcessReturned /\ GlobalsPassed /\ SelectedCommand # <<>>) =>
        \A as \in SpecsOf(SelectedCommand[1]) :
            LET cmd == SelectedCommand[1]
                occ == Occurrences(as)
                made == [i \in 1..Len(occ) |->
                            MakeValue(as.ValueSpecs[1].ArgIndex, splitColon(occ[i]).value)]
            IN  (/\ as.MultiValue /\ as.Optional
                 /\ Len(as.ValueSpecs) = 1
                 /\ OnlyOccurrencesAndFlags(cmd, as)
                 /\ \A i \in 1..Len(occ) : made[i].err = NoErr) =>
                    /\ err = HandlerError(cmd.Handler)
                    /\ Len(calls) > 0
                    /\ calls[Len(calls)].kind = "command"
                    /\ Len(occ) >= 1 =>
                          calls[Len(calls)].values[as.ValueSpecs[1].OptionName]
                             = ListVal(ListType(as.ValueSpecs[1].ArgIndex),
                                       [i \in 1..Len(occ) |-> made[i].value])

\* C15 witness: "-t:12", "-o", "-t:7", "-t:12" gave the list 12, 7, 12
C15_Witness ==
    /\ ProcessReturned
    /\ Len(argv) = 5
    /\ argv[1] = <<"m">>
    /\ Len(calls) = 1
    /\ calls[1].values[<<"n">>] = ListVal("int", <<IntVal(12), IntVal(7), IntVal(12)>>)

\* C16: PrimaryCommand(args) returns the key of the named command that
\* Process(args) selects, and the empty string when the arguments do not map to
\* a command, as when the first argument left after the global options are
\* removed is no command key.
C16_PrimaryCommandIsProcessSelection ==
    (ProcessReturned /\ GlobalsPassed /\ unnamedCmd = <<>>) =>
        PrimaryCommand(argv) =
            IF SelectedCommand # <<>> THEN SelectedCommand[1].PrimaryArgSpec.Key ELSE <<>>

\* C16, the half that holds: when Process selects a named command,
\* PrimaryCommand returns its key
C16_AgreesOnSelectedCommand ==
    (ProcessReturned /\ GlobalsPassed /\ unnamedCmd = <<>> /\ SelectedCommand # <<>>) =>
        PrimaryCommand(argv) = SelectedCommand[1].PrimaryArgSpec.Key

\* args[0] asks for help: it is "help" or "--help" or ends with "?"
AsksForHelp(args) ==
    /\ Len(args) > 0
    /\ \/ args[1] \in {<<"h","e","l","p">>, <<"-","-","h","e","l","p">>}
       \/ HasSuffix(args[1], <<"?">>)

\* the command keys named by the arguments that name no global option
CommandsNamedIn(args) ==
    {splitColon(args[i]).switch : i \in 1..Len(args)}
        \cap ((DOMAIN commands) \ (DOMAIN globalOptions))

\* C17: Help chooses what it prints from the kind of the error and the shape of
\* the arguments: for an error that is no CommandLineError only the message of
\* the error; otherwise, when args[0] is "help" or "--help" or ends with "?", a
\* filtered listing of the commands; otherwise, when the arguments name a
\* registered command, the help of that command; otherwise the full usage.
C17_HelpChoosesOutput ==
    printQueue.kind # "none" =>
        IF err.type \notin {"nil", "CommandLineError"}
        THEN printQueue = Queued("error", err, <<>>, NoListing, <<>>, NoUsage, FALSE)
        ELSE IF AsksForHelp(argv)
        THEN /\ printQueue.kind = "listing"
             /\ printQueue.command = <<>>
             /\ printQueue.usage = NoUsage
        ELSE IF CommandsNamedIn(argv) # {}
        THEN /\ printQueue.kind = "command"
             /\ printQueue.listing = NoListing
             /\ printQueue.usage = NoUsage
             /\ \A i \in 1..Len(printQueue.command) :
                   printQueue.command[i] \in CommandsNamedIn(argv)
        ELSE /\ printQueue.kind = "usage"
             /\ printQueue.usage.appName = AppName
             /\ printQueue.command = <<>>

\* C17 witness: Help after a Process call that returned a handler's error
\* queued the message of that error alone
C17_Witness ==
    /\ printQueue.kind = "error"
    /\ err.handler = 2
    /\ printQueue.message = err
    /\ argv = << <<"b">> >>

\* whether filter, letter case ignored, is a substring of the key or of the
\* help text of the spec as
MatchesAnyCase(as, filter) ==
    \/ Contains(ToLower(as.Key), ToLower(filter))
    \/ Contains(ToLower(as.HelpText), ToLower(filter))

\* the keys of the listing's lines
Shown(lines) == {lines[i] : i \in 1..Len(lines)}

\* C18: the filter of the help listing is a substring match without regard to
\* letter case: a global option is shown if the filter is a substring of its
\* key or of its help text, and a command is shown if the filter is a substring
\* of the key or help text of the command or of any of its options.
C18_FilterIgnoresCase ==
    (printQueue.kind = "listing" /\ Len(TrimSpace(printQueue.filter)) > 0) =>
        LET filter == TrimSpace(printQueue.filter)
        IN  /\ \A k \in DOMAIN globalOptions :
                  MatchesAnyCase(globalOptions[k].argSpec, filter)
                      => k \in Shown(printQueue.listing.globals)
            /\ \A k \in DOMAIN commands :
                  (\/ MatchesAnyCase(commands[k].PrimaryArgSpec, filter)
                   \/ \E option \in optionSpecValues(commands[k]) :
                         MatchesAnyCase(option, filter))
                      => k \in Shown(printQueue.listing.commands)

\* the names and optional flags of the value specs of as, in order
ValueList(as) ==
    [i \in 1..Len(as.ValueSpecs) |->
        <<as.ValueSpecs[i].OptionName, as.ValueSpecs[i].Optional>>]

\* whether the compiled specs a and b are equivalent: the same key and unnamed
\* flag, optional and multi flags, value list and delimiters
Equivalent(a, b) ==
    /\ b.panic = ""
    /\ a.Key = b.Key /\ a.Unnamed = b.Unnamed
    /\ a.Optional = b.Optional /\ a.MultiValue = b.MultiValue
    /\ ValueList(a) = ValueList(b)
    /\ a.ValuesDelim = b.ValuesDelim /\ a.ValueDelim = b.ValueDelim

\* C19 as stated: the text of any compiled spec, compiled again, yields an
\* equivalent spec.
C19_RoundTrip ==
    trip.stage = "again" => Equivalent(trip.as, trip.again)

\* C19 amended: the text of a compiled spec that has a name and no value specs,
\* compiled again, yields an equivalent spec; the text of a spec with value
\* specs names each value without its type, and the text of an unnamed spec
\* leaves the "~" out, and the compiler rejects both.
C19_RoundTripOfPlainSpecs ==
    trip.stage = "again" =>
        IF trip.as.ValueSpecs = <<>> /\ ~trip.as.Unnamed
        THEN Equivalent(trip.as, trip.again)
        ELSE trip.again.panic # ""

\* C19 witness: the optional flag "[-o]" went through the compiler, was
\* written as text and compiled again
C19_Witness ==
    /\ trip.stage = "again"
    /\ trip.template = O_o
    /\ trip.text = O_o
    /\ trip.as.Optional
    /\ Equivalent(trip.as, trip.again)

\* what Process(args) does when no other call runs
Alone(args) ==
    IF DOMAIN commands = {} THEN Outcome(TRUE, NoErr, <<>>) ELSE process(args)

\* whether s is the beginning of t
IsPrefix(s, t) == Len(s) <= Len(t) /\ s = SubSeq(t, 1, Len(s))

\* the handler calls of the call p within the log of all handler calls
RECURSIVE CallsIn(_, _)
CallsIn(log, cs) ==
    IF cs = <<>> THEN TRUE
    ELSE IF log = <<>> THEN FALSE
    ELSE IF Head(log) = Head(cs) THEN CallsIn(Tail(log), Tail(cs))
    ELSE CallsIn(Tail(log), cs)

\* C20: while Process calls run at the same time on one registry, each on its
\* own args, the registry stays as it was when the call started, the handlers
\* a call has invoked so far are, with their Values, the first ones the call
\* invokes when it runs alone, and a call that has returned returned what it
\* returns when it runs alone.
C20_ConcurrentProcessAsAlone ==
    \A p \in DOMAIN procs :
        /\ procs[p].cl = Registry
        /\ IsPrefix(procs[p].calls, Alone(procs[p].args).calls)
        /\ CallsIn(calls, procs[p].calls)
        /\ procs[p].pc = "done" => procs[p].out = Alone(procs[p].args)

\* C20 witness: two calls have returned, both invoked a global handler and
\* then a command handler, and the second call invoked its global handler
\* between the two handler invocations of the first
C20_Witness ==
    /\ Len(procs) = 2
    /\ procs[1].pc = "done" /\ procs[2].pc = "done"
    /\ procs[1].args # procs[2].args
    /\ Len(procs[1].calls) = 2 /\ Len(procs[2].calls) = 2
    /\ Len(calls) = 4
    /\ calls[1] = procs[1].calls[1]
    /\ calls[2] = procs[2].calls[1]
    /\ calls[3] = procs[1].calls[2]
    /\ procs[1].calls[2].values # procs[2].calls[2].values

\* whether the value spec j of as is a multi spec: the option is repeatable
\* ("*" before the key) or the value is ("*" before "<")
IsMultiSpec(as, j) == as.MultiValue \/ as.ValueSpecs[j].Multi

\* C22: in the Values given to a command handler the entry of a value name of a
\* multi spec is a list, also when the option was not supplied or was supplied
\* without a value, and the entry of any other value name is a scalar.
C22_MultiEntriesAreLists ==
    ProcessReturned =>
        \A i \in 1..Len(calls) :
            calls[i].kind = "command" =>
                \A as \in SpecsOf(SelectedCommand[1]) :
                    \A j \in 1..Len(as.ValueSpecs) :
                        as.ValueSpecs[j].OptionName \in DOMAIN calls[i].values =>
                            (calls[i].values[as.ValueSpecs[j].OptionName].t = "list"
                                <=> IsMultiSpec(as, j))

\* C22 without the defaults: the entry of a value name of a multi spec is a
\* list or the default of the value's type, and any other entry is a scalar
C22_ListsOrDefaults ==
    ProcessReturned =>
        \A i \in 1..Len(calls) :
            calls[i].kind = "command" =>
                \A as \in SpecsOf(SelectedCommand[1]) :
                    \A j \in 1..Len(as.ValueSpecs) :
                        LET name == as.ValueSpecs[j].OptionName
                            values == calls[i].values
                        IN  name \in DOMAIN values =>
                                IF IsMultiSpec(as, j)
                                THEN \/ values[name].t = "list"
                                     \/ values[name] = as.ValueSpecs[j].DefaultValue
                                ELSE values[name].t # "list"

\* the converted values of the tokens from position from to position to
ConvertedList(spec, tokens, from, to) ==
    ListVal(ListType(spec.ArgIndex),
            [i \in 1..(to - from + 1) |-> MakeValue(spec.ArgIndex, tokens[from + i - 1]).value])

\* whether the named command cmd has a primary spec of several space-delimited
\* values, the last of them marked "*", and argv gives it, after the key, at
\* least one token per value spec, none dash-prefixed, up to most tokens for the
\* last one, all of which convert
TrailingMultiGiven(cmd, most) ==
    LET as == cmd.PrimaryArgSpec
        n == Len(as.ValueSpecs)
        tokens == Tail(CommandArgs)
    IN  /\ n >= 2
        /\ as.ValuesDelim = " "
        /\ as.ValueSpecs[n].Multi
        /\ \A i \in 1..(n - 1) : ~as.ValueSpecs[i].Multi
        /\ CommandArgs # <<>>
        /\ CommandArgs[1] = as.Key
        /\ Len(tokens) >= n
        /\ Len(tokens) < n + most
        /\ nonDashRun(tokens, 0) = Len(tokens)
        /\ \A i \in 1..Len(tokens) :
              MakeValue(as.ValueSpecs[IF i < n THEN i ELSE n].ArgIndex, tokens[i]).err = NoErr

\* whether the last handler call is the command handler's and its Values hold the
\* tokens after the key: one for each value spec but the last, and all the
\* others, in the order of argv, in the list of the last
TrailingMultiBound(cmd) ==
    LET as == cmd.PrimaryArgSpec
        n == Len(as.ValueSpecs)
        tokens == Tail(CommandArgs)
    IN  /\ Len(calls) > 0
        /\ calls[Len(calls)].kind = "command"
        /\ \A i \in 1..(n - 1) :
              calls[Len(calls)].values[as.ValueSpecs[i].OptionName]
                 = MakeValue(as.ValueSpecs[i].ArgIndex, tokens[i]).value
        /\ calls[Len(calls)].values[as.ValueSpecs[n].OptionName]
              = ConvertedList(as.ValueSpecs[n], tokens, n, Len(tokens))

\* C23: when the last of several space-delimited value specs is marked "*",
\* every non-dash token after the ones of the earlier value specs goes into the
\* list of that value, in the order of argv, none dropped or repeated, however
\* many there are.
C23_TrailingMultiAbsorbsAll ==
    (ProcessReturned /\ GlobalsPassed /\ SelectedCommand # <<>>) =>
        (TrailingMultiGiven(SelectedCommand[1], Len(CommandArgs)) =>
            TrailingMultiBound(SelectedCommand[1]))

\* C23 for at most two tokens for the last value
C23_TrailingMultiAbsorbsTwo ==
    (ProcessReturned /\ GlobalsPassed /\ SelectedCommand # <<>>) =>
        (TrailingMultiGiven(SelectedCommand[1], 2) =>
            TrailingMultiBound(SelectedCommand[1]))

RECURSIVE BareRun(_)
\* how many tokens at the beginning of tokens do not begin with "-"
BareRun(tokens) ==
    IF tokens = <<>> THEN 0
    ELSE IF Head(tokens) # <<>> /\ Head(Head(tokens)) = "-" THEN 0
    ELSE 1 + BareRun(Tail(tokens))

\* the positions in the command arguments at which the spec as of the command
\* cmd is the first spec to be bound: the command itself, or the first argument
\* after a command that takes no values
FirstBound(cmd, as) ==
    IF as = cmd.PrimaryArgSpec
    THEN IF CommandArgs # <<>> /\ splitColon(CommandArgs[1]).switch = as.Key THEN {1} ELSE {}
    ELSE IF /\ Len(CommandArgs) >= 2
            /\ CommandArgs[1] = cmd.PrimaryArgSpec.Key
            /\ cmd.PrimaryArgSpec.ValueSpecs = <<>>
            /\ splitColon(CommandArgs[2]).switch = as.Key
         THEN {2} ELSE {}

\* the smaller of two numbers
Min(a, b) == IF a < b THEN a ELSE b

\* whether the argument at position p of the command arguments, bound to the
\* spec as of several space-delimited single values, took one following
\* non-dash token for each value spec in order, as far as there are such tokens
SpaceValuesBound(cmd, as, p) ==
    LET n == Len(as.ValueSpecs)
        tokens == From(CommandArgs, p)
        k == Min(n, BareRun(tokens))
        name(i) == as.ValueSpecs[i].OptionName
        missing == NewCommandLineError("Required value %s is missing", <<name(k + 1)>>)
        handled == Len(calls) > 0 /\ calls[Len(calls)].kind = "command"
        values == calls[Len(calls)].values
    IN  IF k < n /\ ~as.ValueSpecs[k + 1].Optional
        THEN err = missing /\ CallsOf("command", calls) = <<>>
        ELSE /\ err.msg # "Required value %s is missing"
             /\ handled =>
                   /\ \A i \in 1..k :
                         values[name(i)] = MakeValue(as.ValueSpecs[i].ArgIndex, tokens[i]).value
                   /\ \A i \in (k + 1)..n :
                         name(i) \in DOMAIN values => values[name(i)] = as.ValueSpecs[i].DefaultValue
             /\ (/\ Len(tokens) > k
                 /\ splitColon(tokens[k + 1]).switch \notin DOMAIN cmd.OptionSpecs.values) =>
                   err = NewCommandLineError("Unrecognized command argument: ",
                                             <<splitColon(tokens[k + 1]).switch>>)

\* C24: a spec with several space-delimited value specs takes one following
\* non-dash token per value spec, in order, and never a dash-prefixed one; when
\* the tokens run out at an optional value spec the binding ends without an
\* error, and when they run out at a required one Process fails with the
\* command-line error "Required value <name> is missing", naming the first
\* required value left without a token.
C24_SpaceValuesOnePerSpec ==
    (ProcessReturned /\ GlobalsPassed /\ SelectedCommand # <<>>) =>
        \A as \in SpecsOf(SelectedCommand[1]) :
            \A p \in FirstBound(SelectedCommand[1], as) :
                (/\ Len(as.ValueSpecs) >= 2
                 /\ as.ValuesDelim = " "
                 /\ \A i \in 1..Len(as.ValueSpecs) : ~as.ValueSpecs[i].Multi
                 /\ \A i \in 1..Len(as.ValueSpecs) :
                       i <= BareRun(From(CommandArgs, p)) =>
                          MakeValue(as.ValueSpecs[i].ArgIndex, CommandArgs[p + i]).err = NoErr) =>
                    SpaceValuesBound(SelectedCommand[1], as, p)

\* C24 witness: "f <string-a> <string-b> [<string-c>]" was given "x" and the
\* option-like "-q", and Process reported that b is missing
C24_Witness ==
    /\ ProcessReturned
    /\ argv = << <<"f">>, <<"x">>, <<"-","q">> >>
    /\ SelectedCommand # <<>>
    /\ Len(SelectedCommand[1].PrimaryArgSpec.ValueSpecs) = 3
    /\ err = NewCommandLineError("Required value %s is missing", << <<"b">> >>)
    /\ calls = <<>>

\* the tokens ran out at the optional value c and the handler was called with
\* a = "x" and b = "y"
C24_OptionalEnds ==
    /\ ProcessReturned
    /\ argv = << <<"f">>, <<"x">>, <<"y">> >>
    /\ err = NoErr
    /\ Len(calls) = 1
    /\ calls[1].values[<<"a">>] = StrVal(<<"x">>)
    /\ calls[1].values[<<"b">>] = StrVal(<<"y">>)

\* the text the argument at position p of the command arguments gives the spec
\* as to take its values from: the inline value after the colon, else for a
\* space-delimited spec the next token unless it is dash-prefixed (<<>>: none)
ValueSource(as, p) ==
    LET sc == splitColon(CommandArgs[p])
    IN  IF sc.hasValue THEN <<sc.value>>
        ELSE IF as.ValuesDelim = " " /\ BareRun(From(CommandArgs, p)) >= 1
             THEN <<CommandArgs[p + 1]>>
        ELSE <<>>

\* the first value the text source holds for the spec as
FirstPiece(as, source) == IF as.ValueDelim = "," THEN Split(source, ",")[1] ELSE source

\* the first value of an entry of Values
FirstValue(v) == IF v.t = "list" /\ v.l # <<>> THEN v.l[1] ELSE v

\* whether the command handler was called with the first value of the spec as,
\* bound at position p, taken from the value source of that argument
FromValueSource(as, p) ==
    LET source == ValueSource(as, p)
        values == calls[Len(calls)].values
        spec == as.ValueSpecs[1]
    IN  (/\ source # <<>>
         /\ Len(calls) > 0
         /\ calls[Len(calls)].kind = "command") =>
            /\ spec.OptionName \in DOMAIN values
            /\ FirstValue(values[spec.OptionName])
                  = MakeValue(spec.ArgIndex, FirstPiece(as, source[1])).value

\* C25: an argument given with an inline value ("key:value") has its values
\* taken from the inline value and not from the tokens that follow, whatever
\* the shape of its spec; only without an inline value, and for a
\* space-delimited spec, does the next non-dash token give the values.
C25_InlineValueFirst ==
    (ProcessReturned /\ GlobalsPassed /\ SelectedCommand # <<>>) =>
        \A as \in SpecsOf(SelectedCommand[1]) :
            \A p \in FirstBound(SelectedCommand[1], as) :
                Len(as.ValueSpecs) >= 1 => FromValueSource(as, p)

\* C25 for the specs other than those of several space-delimited values, named
\* once in the arguments
C25_InlineValueFirstButSpaceLists ==
    (ProcessReturned /\ GlobalsPassed /\ SelectedCommand # <<>>) =>
        \A as \in SpecsOf(SelectedCommand[1]) :
            \A p \in FirstBound(SelectedCommand[1], as) :
                (/\ Len(as.ValueSpecs) >= 1
                 /\ Len(Occurrences(as)) = 1
                 /\ ~(Len(as.ValueSpecs) >= 2 /\ as.ValueDelim # ",")) =>
                    FromValueSource(as, p)

\* C28: once a command is registered, Process panics for no argument list: every
\* malformed or unexpected input ends in a returned error or in the handler
\* calls.
C28_ProcessNeverPanics ==
    (op = "Process" /\ DOMAIN commands # {}) => ~panicked

\* C28 for the argument lists that name no repeatable option both with and
\* without a value
C28_NoPanicButRepeatedDefault ==
    (op = "Process" /\ DOMAIN commands # {} /\ panicked) =>
        \E i, j \in 1..Len(argv) :
            /\ i < j
            /\ ~splitColon(argv[i]).hasValue
            /\ splitColon(argv[j]).hasValue
            /\ splitColon(argv[i]).switch = splitColon(argv[j]).switch

\* whether RegisterCommand accepts the command first on an empty registry and
\* then the command second
AcceptedInOrder(first, second) ==
    /\ ~checkForDuplicateNames(<<>>, <<>>, <<>>, <<first>>)
    /\ ~checkForDuplicateNames(<<>>, Put(<<>>, first.PrimaryArgSpec.Key, first),
                               <<first.PrimaryArgSpec.Key>>, <<second>>)

\* whether the duplicate check of a RegisterCommand call with the command cmd
\* ends the same way for every order in which the range over cl.commands can
\* visit the commands
SameForEveryOrder(cmd) ==
    \A o1, o2 \in RangeOrders(DOMAIN commands) :
        checkForDuplicateNames(globalOptions, commands, o1, <<cmd>>)
            = checkForDuplicateNames(globalOptions, commands, o2, <<cmd>>)

\* C29: whether registrations are accepted depends neither on the order of the
\* calls nor on the order in which a map is visited: two commands accepted in
\* one order are accepted in the other, and a further RegisterCommand call has
\* the same outcome every time.
C29_RegistrationOrderIndependent ==
    (/\ op = "RegisterCommand" /\ ~aborted
     /\ Cardinality(DOMAIN commands) = 2
     /\ globalOptions = <<>>) =>
        LET last == newCommand(req.handler, req.specs).cmd
            before == commands[CHOOSE k \in DOMAIN commands : k # last.PrimaryArgSpec.Key]
        IN  /\ AcceptedInOrder(last, before)
            /\ \A c \in CommandCalls :
                  newCommand(c.handler, c.specs).panic = "" =>
                      SameForEveryOrder(newCommand(c.handler, c.specs).cmd)

\* C29, the calls alone: two commands accepted in one order are accepted in the
\* other
C29_TwoCallsEitherOrder ==
    (/\ op = "RegisterCommand" /\ ~aborted
     /\ Cardinality(DOMAIN commands) = 2
     /\ globalOptions = <<>>) =>
        LET last == newCommand(req.handler, req.specs).cmd
            before == commands[CHOOSE k \in DOMAIN commands : k # last.PrimaryArgSpec.Key]
        IN  AcceptedInOrder(last, before)

\* ------------------------------------------------------------------ C26
\* the help call that has rendered
Rendering == helpCalls[1]

HasRendered == Len(helpCalls) = 1 /\ Prn.panic = ""

\* the positions of the two-column lines of a queue
TwoColumn(queue) == {i \in 1..Len(queue) : queue[i].cols = 2}

\* 2 * indent + token width
TokenWidth(queued) == 2 * queued.indent + Len(queued.str1)

\* min(30, W + 2), W the widest token of the two-column lines
River(queue) ==
    LET widest == CHOOSE w \in {TokenWidth(queue[i]) : i \in TwoColumn(queue)} :
                      \A i \in TwoColumn(queue) : TokenWidth(queue[i]) <= w
    IN  Min(30, widest + 2)

\* the lines the printer wrote for line i of the rendered queue
OutputOf(i) ==
    SubSeq(Prn.out, (IF i = 1 THEN 0 ELSE Rendering.marks[i - 1]) + 1, Rendering.marks[i])

\* the text has a word before its first line feed
FirstLineHasWord(text) ==
    \E k \in 1..Len(text) :
        /\ text[k] \notin {" ", "\n"}
        /\ \A j \in 1..(k - 1) : text[j] # "\n"

\* the line is blank up to the column and has a word starting right after it
StartsAt(line, from, column) ==
    /\ Len(line) > column
    /\ \A k \in (from + 1)..column : line[k] = " "
    /\ line[column + 1] # " "

\* the token of line i is on its own line and its description starts the next
OnFollowingLine(i, river) ==
    /\ Len(OutputOf(i)) >= 2
    /\ Len(OutputOf(i)[1]) = TokenWidth(Rendering.queue[i])
    /\ StartsAt(OutputOf(i)[2], 0, river)

\* the description of line i starts on the line of its token
OnTokenLine(i, river) ==
    StartsAt(OutputOf(i)[1], TokenWidth(Rendering.queue[i]), river)

\* C26: when helpRender has printed a queue, the column it computed is
\* min(30, W + 2) for the widest token width W (2 * indent + token) of the
\* two-column lines; every description with a word on its first line starts
\* at exactly that column: on the line of its token when the token ends
\* before the column, and on the following line when the token reaches or
\* passes it
C26_RiverColumn ==
    HasRendered =>
        \A i \in TwoColumn(Rendering.queue) :
            LET river == River(Rendering.queue)
                queued == Rendering.queue[i]
            IN  /\ riverLoop(Rendering.queue, 1, 0) = river
                /\ FirstLineHasWord(queued.str2) =>
                       IF TokenWidth(queued) < river THEN OnTokenLine(i, river)
                       ELSE OnFollowingLine(i, river)

\* a queue whose widest token passes the cap has been printed: one description
\* shares the line of its token, another is on the line after its token
C26_Witness ==
    /\ HasRendered
    /\ \E i, j \in TwoColumn(Rendering.queue) :
          /\ TokenWidth(Rendering.queue[j]) + 2 > 30
          /\ River(Rendering.queue) = 30
          /\ TokenWidth(Rendering.queue[i]) < 30
          /\ TokenWidth(Rendering.queue[j]) >= 30
          /\ FirstLineHasWord(Rendering.queue[i].str2)
          /\ FirstLineHasWord(Rendering.queue[j].str2)
          /\ OnTokenLine(i, 30)
          /\ OnFollowingLine(j, 30)

\* ------------------------------------------------------------------ C30
\* C30: whenever helpRender has returned or unwound, no printer call of it
\* has panicked (BeginPrint and Println were called with no segmented print
\* open, ContinuePrint and EndPrint with one open), no segmented print is
\* left open, the printer's pause count is the one it had before, and the
\* help queue is empty
C30_PrinterProtocol ==
    Len(helpCalls) = 1 =>
        /\ Prn.panic = ""
        /\ ~Prn.nestedPrint
        /\ Prn.open = <<>>
        /\ Prn.pauseCount = helpCalls[1].prior
        /\ helpQueue = <<>>

\* a paused printer has printed a heading and a description of several lines,
\* one of them blank, under a token that passes the description column
C30_Witness ==
    /\ Len(helpCalls) = 1
    /\ helpCalls[1].prior = 1
    /\ Prn.pauseCount = 1
    /\ ~Prn.nestedPrint
    /\ helpQueue = <<>>
    /\ \E i, j \in 1..Len(helpCalls[1].queue) :
          /\ helpCalls[1].queue[i].cols = 1
          /\ helpCalls[1].queue[j].cols = 2
          /\ helpCalls[1].queue[j].str2 = D_lines
          /\ Len(helpCalls[1].queue[j].str1) = 35
    /\ \E k \in 1..Len(Prn.out) : Prn.out[k] = <<>>
    /\ Len(Prn.out) >= 6

\* ------------------------------------------------------------------ C21
RECURSIVE WordsOf(_)
\* the words of a text, in order: its runs of characters other than spaces
\* and line feeds
WordsOf(text) ==
    LET gaps == {k \in 1..Len(text) : text[k] \in {" ", "\n"}}
        first == CHOOSE k \in gaps : \A j \in gaps : k <= j
    IN  IF Len(text) = 0 THEN <<>>
        ELSE IF gaps = {} THEN <<text>>
        ELSE IF first = 1 THEN WordsOf(Tail(text))
        ELSE <<SubSeq(text, 1, first - 1)>> \o WordsOf(SubSeq(text, first + 1, Len(text)))

RECURSIVE WordsOfLines(_)
\* the words of a list of printed lines, in order
WordsOfLines(lines) ==
    IF Len(lines) = 0 THEN <<>> ELSE WordsOf(Head(lines)) \o WordsOfLines(Tail(lines))

\* the printed line is blank up to the column
BlankTo(line, column) == \A k \in 1..Min(column, Len(line)) : line[k] = " "

\* every break falls at a space: the printed lines of line i hold the words
\* of its token and its description, whole and in order
WordsKept(i) ==
    WordsOfLines(OutputOf(i))
        = WordsOf(Rendering.queue[i].str1) \o WordsOf(Rendering.queue[i].str2)

\* the lines after the first of line i start at the column
ContinuationsAtRiver(i, river) ==
    \A k \in 2..Len(OutputOf(i)) :
        OutputOf(i)[k] = <<>> \/ StartsAt(OutputOf(i)[k], 0, river)

\* a printed line is at most 120 columns wide unless it holds a single word
WidthKept(i) ==
    \A k \in 1..Len(OutputOf(i)) :
        Len(OutputOf(i)[k]) <= 120 \/ Len(WordsOf(OutputOf(i)[k])) = 1

\* C21: when helpRender has printed a queue, the lines printed for every
\* two-column line hold its words unsplit and in order, every line after the
\* first starts at the description column, and no printed line is wider than
\* 120 columns unless it holds a single word
C21_WrapsAtSpaces ==
    HasRendered =>
        \A i \in TwoColumn(Rendering.queue) :
            /\ WordsKept(i)
            /\ ContinuationsAtRiver(i, River(Rendering.queue))
            /\ WidthKept(i)

\* C21 without the width: words are never split and continuation lines start
\* at the description column
C21_WordsKept ==
    HasRendered =>
        \A i \in TwoColumn(Rendering.queue) :
            /\ WordsKept(i)
            /\ ContinuationsAtRiver(i, River(Rendering.queue))

\* the width is kept whenever the first word left to print fits on a line
C21_WidthKeptWhenWordsFit ==
    HasRendered =>
        \A i \in TwoColumn(Rendering.queue) :
            LET Fit(words, river) ==
                    \A w \in 1..Len(words) : river + Len(words[w]) <= 120
            IN  Fit(WordsOf(Rendering.queue[i].str2), River(Rendering.queue))
                    => WidthKept(i)

\* ------------------------------------------------------------------ C27
RECURSIVE QueueOf(_, _)
\* the queue a help call builds from its lines when it runs alone
QueueOf(content, queue) ==
    IF Len(content) = 0 THEN queue
    ELSE QueueOf(Tail(content), appended(queue, Head(content)))

\* the lines a help call prints when it runs alone
PrintedAlone(content) == helpRender(QueueOf(content, <<>>), defaultPrinter(0)).dp.out

\* C27: a help call that has returned has printed exactly the lines it
\* prints when it runs alone, whatever other help calls on the same registry
\* did in the meantime
C27_ConcurrentHelpAsAlone ==
    \A c \in 1..Len(helpCalls) :
        helpCalls[c].pc = "done" => helpCalls[c].emitted = PrintedAlone(helpCalls[c].content)

\* a help call during which no other help call was in progress prints
\* exactly the lines it prints alone
C27_HelpAloneAsAlone ==
    \A c \in 1..Len(helpCalls) :
        (helpCalls[c].pc = "done" /\ ~helpCalls[c].overlapped)
            => helpCalls[c].emitted = PrintedAlone(helpCalls[c].content)

====
